---- MODULE Spec2Model ----
(***************************************************************************)
(* Model of the parametric GBS + tower builder (src/principal).            *)
(*                                                                         *)
(* Lengths are integers.  In the validator specification (SpecCheck) they  *)
(* are abstract length units; in the model-database specification (Spec)   *)
(* they are centimetres, so that the tolerances of the bounding-box probes *)
(* (0.01 m, 0.05 m, 0.1 m, 0.5 m, 1000 m) are the integers 1, 5, 10, 50,   *)
(* 100000.                                                                 *)
(*                                                                         *)
(* The Abaqus model database is the record mdl.  Every handler of the      *)
(* source is an operator from a database record to a database record; the  *)
(* field exc holds the exception in flight ("none" when there is none), a  *)
(* statement is skipped once an exception is in flight, and try/except     *)
(* blocks clear it.  One action applies one whole handler.                 *)
(***************************************************************************)
EXTENDS Integers, Sequences, FiniteSets, TLC

VARIABLES params, result, mdl, host, last, run, snap

vars == <<params, result, mdl, host, last, run, snap>>

-----------------------------------------------------------------------------
(* Bounds of the validator's input space.                                  *)

MaxLen == 3

Lengths == 0..MaxLen

\* A height or thickness whose sign alone is read by check_parameters.
Sgn == {0, 1}

-----------------------------------------------------------------------------
(* main.py: the driver's parameter set (centimetres) and its names.        *)

param_geom ==
    [dim_tour |-> "1D",
     r_up_tower |-> 200, r_down_tower |-> 350, h_tower |-> 5000,
     thickness_tower |-> 50,
     plateau_radius |-> 1550, plateau_height |-> 170,
     cone_height |-> 2730, cone_top_outer_radius |-> 350,
     cone_bottom_outer_radius |-> 1000, cone_thickness |-> 50,
     cyl_height |-> 1800, h_monitor |-> 4265]

names_dict ==
    [part_tower |-> "Tower_Steel", part_gbs |-> "GBS_Concrete",
     inst_tower |-> "Inst_Tower_1", inst_gbs |-> "Inst_GBS_1",
     surf_tower |-> "Surf_Steel_Outer", surf_gbs |-> "Surf_Concrete_Outer",
     surf_global |-> "Surf_Global_Environment",
     job_name |-> "Job-GBS-Tower", step_name |-> "Step_BC",
     set_monitor |-> "Set_Monitor_Top"]

-----------------------------------------------------------------------------
(* def_geometrie.py, check_parameters.                                     *)

required_positive ==
    <<"cone_thickness", "cone_top_outer_radius", "plateau_radius",
      "plateau_height", "cyl_height", "thickness_tower", "h_tower">>

\* The loop of lines 63-66: the index of the first key whose value is <= 0,
\* 0 when the loop ends without raising.
RECURSIVE first_nonpositive(_, _)
first_nonpositive(p, i) ==
    IF i > Len(required_positive) THEN 0
    ELSE IF p[required_positive[i]] <= 0 THEN i
    ELSE first_nonpositive(p, i + 1)

r_gbs_ext(p) == p.cone_top_outer_radius

r_gbs_hole(p) == r_gbs_ext(p) - p.cone_thickness

r_tower_bot(p) == p.r_down_tower

cone_too_thin(p) == p.cone_bottom_outer_radius <= p.cone_thickness

tower_in_hole_strict(p) == r_tower_bot(p) < r_gbs_hole(p)

tower_in_hole(p) == r_tower_bot(p) <= r_gbs_hole(p)

tower_overhangs(p) == r_tower_bot(p) > r_gbs_ext(p)

Returned == [raised |-> FALSE, check |-> "none", key |-> "none"]

Raised(c, k) == [raised |-> TRUE, check |-> c, key |-> k]

\* A plausible slip: the interface tests run before the cone test.
check_parameters_reordered(p) ==
    LET i == first_nonpositive(p, 1) IN
    IF i > 0 THEN Raised("positive", required_positive[i])
    ELSE IF tower_in_hole(p) THEN Raised("hole", "r_down_tower")
    ELSE IF tower_overhangs(p) THEN Raised("overhang", "r_down_tower")
    ELSE IF cone_too_thin(p) THEN Raised("cone", "cone_bottom_outer_radius")
    ELSE Returned

check_parameters(p) ==
    LET i == first_nonpositive(p, 1) IN
    IF i > 0 THEN Raised("positive", required_positive[i])
    ELSE IF cone_too_thin(p) THEN Raised("cone", "cone_bottom_outer_radius")
    ELSE IF tower_in_hole(p) THEN Raised("hole", "r_down_tower")
    ELSE IF tower_overhangs(p) THEN Raised("overhang", "r_down_tower")
    ELSE Returned

\* The text of the ValueError (lines 66, 71, 82-84, 88-90), by content:
\* subject, what the text designates as wrong; quoted, whether it quotes
\* the key of the parameter; bound, the limit it states for the value
\* (<<>> when the text states none).
error_message(p) ==
    LET c == check_parameters(p).check IN
    CASE c = "positive" ->
            [subject |-> check_parameters(p).key, quoted |-> TRUE,
             bound |-> <<0>>]
      [] c = "cone" ->
            [subject |-> "rayon bas du cone", quoted |-> FALSE,
             bound |-> <<>>]
      [] c = "hole" ->
            [subject |-> "base de la tour", quoted |-> FALSE,
             bound |-> <<r_gbs_hole(p)>>]
      [] c = "overhang" ->
            [subject |-> "tour", quoted |-> FALSE,
             bound |-> <<r_gbs_ext(p)>>]
      [] OTHER -> [subject |-> "", quoted |-> FALSE, bound |-> <<>>]

\* create_fused_gbs, lines 274-275: the inner radii of the hollow profiles.
r_int_bot(p) == p.cone_bottom_outer_radius - p.cone_thickness

r_int_top(p) == p.cone_top_outer_radius - p.cone_thickness

-----------------------------------------------------------------------------
(* Inputs of the validator specification.                                  *)

\* The end-to-end scenario of the specification (cm): outer 3.5 m,
\* thickness 0.5 m, tower base 3.5 m, 3.01 m and 2.9 m.
ScenarioParams ==
    {[param_geom EXCEPT !.cone_height = 2534, !.r_down_tower = r]
        : r \in {350, 301, 290}}

CheckParamSpace ==
    [dim_tour : {"3D"},
     r_up_tower : Sgn, r_down_tower : Lengths, h_tower : Sgn,
     thickness_tower : Sgn,
     plateau_radius : Sgn, plateau_height : Sgn,
     cone_height : Sgn, cone_top_outer_radius : Lengths,
     cone_bottom_outer_radius : Lengths, cone_thickness : Lengths,
     cyl_height : Sgn, h_monitor : {0}]
    \cup ScenarioParams

Unchecked == [raised |-> FALSE, check |-> "unchecked", key |-> "none"]

-----------------------------------------------------------------------------
(* The Abaqus model database and the host's rules.                         *)

NoObjects == [x \in {} |-> 0]

Put(f, k, v) == [x \in DOMAIN f \cup {k} |-> IF x = k THEN v ELSE f[x]]

Drop(f, ks) == [x \in DOMAIN f \ ks |-> f[x]]

\* mdb.Model(...): an empty model; exc, dup and ret describe the call in
\* progress (exception in flight, duplicate-name creation attempted,
\* returned value).  jobs is mdb.jobs; files is the working directory the
\* solver and the post-processing write to.
EmptyModel ==
    [parts |-> NoObjects, sketches |-> {}, instances |-> NoObjects,
     sets |-> {}, surfaces |-> NoObjects, features |-> {}, constraints |-> {},
     bcs |-> {},
     materials |-> {}, sections |-> {}, profiles |-> {},
     steps |-> {}, historyOutputRequests |-> {},
     amplitudes |-> NoObjects, analyticalFields |-> NoObjects,
     loads |-> NoObjects, jobs |-> NoObjects, files |-> NoObjects,
     exc |-> "none", dup |-> FALSE, ret |-> "None"]

Ok(s) == s.exc = "none"

Begin(s) == [s EXCEPT !.exc = "none", !.dup = FALSE, !.ret = "None"]

Raise(s, e) == IF Ok(s) THEN [s EXCEPT !.exc = e] ELSE s

Return(s, v) == IF Ok(s) THEN [s EXCEPT !.ret = v] ELSE s

\* try: ... except Exception: the exception raised inside the block is
\* absorbed; an exception already in flight before the block is not.
Except(before, after) == IF Ok(before) THEN [after EXCEPT !.exc = "none"] ELSE after

\* The host rule stated in clean_features: "Abaqus plante si on essaie de
\* créer un objet qui porte le même nom qu'un objet existant".  The
\* repository object is either refused (host.dup_raises) or replaced.
Create(s, exists, created) ==
    IF ~Ok(s) THEN s
    ELSE IF exists
         THEN IF host.dup_raises
              THEN [s EXCEPT !.exc = "AbaqusError", !.dup = TRUE]
              ELSE [created EXCEPT !.dup = TRUE]
         ELSE created

\* A part records how it was built: kind is "wire", "revolve", "cut" or
\* "merge", geom the dimensions handed to the sketch(es) it comes from.
Part(s, name, kind, geom) ==
    Create(s, name \in DOMAIN s.parts,
           [s EXCEPT !.parts = Put(@, name,
                [kind |-> kind, geom |-> geom,
                 surfaces |-> NoObjects, sets |-> {}, features |-> {},
                 section |-> "none", mesh |-> "none"])])

ConstrainedSketch(s, name) ==
    Create(s, name \in s.sketches, [s EXCEPT !.sketches = @ \cup {name}])

Instance(s, name, part) ==
    Create(s, name \in DOMAIN s.instances,
           [s EXCEPT !.instances = Put(@, name,
                [part |-> part, dy |-> 0, suppressed |-> FALSE])])

translate_nowhere(s, name, dy) == s

\* a.translate(instanceList=(name, ), vector=(0.0, dy, 0.0)).
translate(s, name, dy) ==
    IF ~Ok(s) THEN s
    ELSE [s EXCEPT !.instances[name].dy = @ + dy]

\* The repositories whose objects carry data in the model; the others are
\* sets of names.
KeyedRepositories ==
    {"parts", "instances", "surfaces", "amplitudes", "analyticalFields",
     "loads", "jobs", "files"}

\* del repository[name]: KeyError when the key is absent.
Del(s, field, name) ==
    IF ~Ok(s) THEN s
    ELSE IF field \in KeyedRepositories
         THEN IF name \in DOMAIN s[field]
              THEN [s EXCEPT ![field] = Drop(@, {name})]
              ELSE Raise(s, "KeyError")
         ELSE IF name \in s[field]
              THEN [s EXCEPT ![field] = @ \ {name}]
              ELSE Raise(s, "KeyError")

DelIfExists(s, field, name) ==
    IF ~Ok(s) THEN s
    ELSE IF field \in KeyedRepositories
         THEN [s EXCEPT ![field] = Drop(@, {name})]
         ELSE [s EXCEPT ![field] = @ \ {name}]

\* part.Surface(name=..., side1Faces=faces), part.Set(name=...) on an
\* existing part.
PartSurface(s, part, name, faces) ==
    Create(s, name \in DOMAIN s.parts[part].surfaces,
           [s EXCEPT !.parts[part].surfaces = Put(@, name, faces)])

PartSet(s, part, name) ==
    Create(s, name \in s.parts[part].sets,
           [s EXCEPT !.parts[part].sets = @ \cup {name}])

AsmSet(s, name) ==
    Create(s, name \in s.sets, [s EXCEPT !.sets = @ \cup {name}])

AsmSurface(s, name, faces) ==
    Create(s, name \in DOMAIN s.surfaces,
           [s EXCEPT !.surfaces = Put(@, name, faces)])

\* InstanceFromBooleanCut / InstanceFromBooleanMerge with
\* originalInstances=SUPPRESS: a new part `name`, its instance `name-1`,
\* and the input instances suppressed (they stay registered).
BooleanInstance(name) == name \o "-1"

InstanceFromBoolean(s, name, kind, geom, inputs) ==
    LET s1 == Part(s, name, kind, geom)
        s2 == Instance(s1, BooleanInstance(name), name)
    IN  IF ~Ok(s2) THEN s2
        ELSE [s2 EXCEPT !.instances =
                [i \in DOMAIN @ |->
                    IF i \in inputs THEN [@[i] EXCEPT !.suppressed = TRUE]
                    ELSE @[i]]]

-----------------------------------------------------------------------------
(* def_geometrie.py, clean_features.                                       *)

RECURSIVE clean_features(_, _, _)
clean_features(s, object_names, object_type) ==
    IF object_names = <<>> THEN s
    ELSE LET name == Head(object_names)
             s1 == IF object_type = "Part" THEN DelIfExists(s, "parts", name)
                   ELSE IF object_type = "Sketch"
                        THEN DelIfExists(s, "sketches", name)
                   ELSE IF object_type = "Instance"
                        THEN DelIfExists(s, "instances", name)
                   ELSE s
         IN  clean_features(s1, Tail(object_names), object_type)

-----------------------------------------------------------------------------
(* The faces of a part as the point probes read them: each face of         *)
(* revolution is given by the sketch segment that generates it, from       *)
(* (r1, y1) to (r2, y2) in the part's coordinates, and by the wall it      *)
(* belongs to: "outer" (outer flank), "inner" (wall of the cavity), "cap"  *)
(* (horizontal end face) or "interface" (boundary between two merged       *)
(* primitives, kept by keepIntersections=True).                            *)

Seg(r1, y1, r2, y2, wall) ==
    [r1 |-> r1, y1 |-> y1, r2 |-> r2, y2 |-> y2, wall |-> wall]

\* create_revolve_part, lines 162-165, revolved: g = <<r_bot, r_top, height>>.
revolve_profile(g) ==
    {Seg(0, 0, g[1], 0, "cap"), Seg(g[1], 0, g[2], g[3], "outer"),
     Seg(g[2], g[3], 0, g[3], "cap")}

\* Lines 193-209, outer solid minus inner solid:
\* g = <<r_down, r_up, h, r_down_in, r_up_in>>.
cut_profile(g) ==
    {Seg(g[4], 0, g[1], 0, "cap"), Seg(g[1], 0, g[2], g[3], "outer"),
     Seg(g[2], g[3], g[5], g[3], "cap"), Seg(g[5], g[3], g[4], 0, "inner")}

\* Lines 290-293, 303-306 and 315-319, stacked by lines 335 and 339 and
\* merged: g = <<r_plat, h_plat, r_ext_bot, r_ext_top, r_int_bot, r_int_top,
\* h_cone, h_cyl>>.  The top of the plateau is split by the foot of the cone.
merge_profile(g) ==
    LET y1 == g[2]
        y2 == g[2] + g[7]
        y3 == g[2] + g[7] + g[8]
    IN  {Seg(0, 0, g[1], 0, "cap"), Seg(g[1], 0, g[1], y1, "outer"),
         Seg(g[1], y1, g[3], y1, "cap"), Seg(g[3], y1, g[5], y1, "interface"),
         Seg(g[5], y1, 0, y1, "inner"),
         Seg(g[3], y1, g[4], y2, "outer"), Seg(g[4], y2, g[6], y2, "interface"),
         Seg(g[6], y2, g[5], y1, "inner"),
         Seg(g[4], y2, g[4], y3, "outer"), Seg(g[6], y3, g[4], y3, "cap"),
         Seg(g[6], y2, g[6], y3, "inner")}

part_profile(part) ==
    IF part.kind = "revolve" /\ Len(part.geom) = 3
    THEN revolve_profile(part.geom)
    ELSE IF part.kind = "cut" THEN cut_profile(part.geom)
    ELSE IF part.kind = "merge" THEN merge_profile(part.geom)
    ELSE {}

\* A probe point (x, y, 0.0) of the source, with both coordinates doubled
\* so that the midpoints it computes ((a + b) / 2.0) stay integers.
Point2(x2, y2) == [x2 |-> x2, y2 |-> y2]

Between(a, b, x) == (a <= x /\ x <= b) \/ (b <= x /\ x <= a)

\* faces.findAt((point, )): the faces whose generating segment passes
\* through the point.
findAt(profile, pt) ==
    {f \in profile :
        /\ (f.r2 - f.r1) * (pt.y2 - 2 * f.y1)
                = (f.y2 - f.y1) * (pt.x2 - 2 * f.r1)
        /\ Between(2 * f.r1, 2 * f.r2, pt.x2)
        /\ Between(2 * f.y1, 2 * f.y2, pt.y2)}

-----------------------------------------------------------------------------
(* The sketches as they are drawn: each s.Line(point1, point2) is the pair *)
(* of its end points, in the sketch's own coordinates.                     *)

Line(point1, point2) == <<point1, point2>>

\* create_revolve_part, lines 162-165.
revolve_sketch(r_bot, r_top, height) ==
    <<Line(<<0, 0>>, <<r_bot, 0>>), Line(<<r_bot, 0>>, <<r_top, height>>),
      Line(<<r_top, height>>, <<0, height>>), Line(<<0, height>>, <<0, 0>>)>>

\* create_fused_gbs, lines 290-293.
plateau_sketch(param) ==
    LET r_plat == param.plateau_radius
        h_plat == param.plateau_height
    IN  <<Line(<<0, 0>>, <<r_plat, 0>>), Line(<<r_plat, 0>>, <<r_plat, h_plat>>),
          Line(<<r_plat, h_plat>>, <<0, h_plat>>), Line(<<0, h_plat>>, <<0, 0>>)>>

\* create_fused_gbs, lines 303-306.
cone_sketch(param) ==
    LET r_ext_bot == param.cone_bottom_outer_radius
        r_ext_top == param.cone_top_outer_radius
        r_in_bot == r_ext_bot - param.cone_thickness
        r_in_top == r_ext_top - param.cone_thickness
        h_cone == param.cone_height
    IN  <<Line(<<r_ext_bot, 0>>, <<r_ext_top, h_cone>>),
          Line(<<r_ext_top, h_cone>>, <<r_in_top, h_cone>>),
          Line(<<r_in_top, h_cone>>, <<r_in_bot, 0>>),
          Line(<<r_in_bot, 0>>, <<r_ext_bot, 0>>)>>

\* create_fused_gbs, lines 315-319.
cyl_sketch(param) ==
    LET r_ext_top == param.cone_top_outer_radius
        r_in_top == r_ext_top - param.cone_thickness
        h_cyl == param.cyl_height
    IN  <<Line(<<r_ext_top, 0>>, <<r_ext_top, h_cyl>>),
          Line(<<r_in_top, h_cyl>>, <<r_ext_top, h_cyl>>),
          Line(<<r_in_top, 0>>, <<r_in_top, h_cyl>>),
          Line(<<r_in_top, 0>>, <<r_ext_top, 0>>)>>

\* The profiles a call of create_tower (lines 176-209: one solid, or the
\* outer and the inner solid of the cut) or of create_fused_gbs draws.
sketches_drawn(op, param) ==
    IF op = "create_fused_gbs"
    THEN {plateau_sketch(param), cone_sketch(param), cyl_sketch(param)}
    ELSE IF op # "create_tower" \/ param.dim_tour = "1D" THEN {}
    ELSE IF param.r_up_tower - param.thickness_tower > 0
            /\ param.r_down_tower - param.thickness_tower > 0
         THEN {revolve_sketch(param.r_down_tower, param.r_up_tower,
                              param.h_tower),
               revolve_sketch(param.r_down_tower - param.thickness_tower,
                              param.r_up_tower - param.thickness_tower,
                              param.h_tower)}
    ELSE {revolve_sketch(param.r_down_tower, param.r_up_tower, param.h_tower)}

-----------------------------------------------------------------------------
(* def_geometrie.py, create_tower_1d / create_tower_3d / create_tower.     *)

create_tower_1d(s, param, names) ==
    LET part_name == names.part_tower
        h == param.h_tower
        s1 == Part(s, part_name, "wire", <<h>>)
        s2 == PartSet(s1, part_name, "Set_Beam_All")
    IN  Return(s2, part_name)

\* p.BaseSolidRevolve(angle=360.0, sketch=s) on the part just created: the
\* host refuses a profile without area (no height, no radius) or one that
\* crosses the axis of revolution (a negative radius).  A profile drawn
\* downwards (a negative height) has an area and is revolved.
BaseSolidRevolve(s, height, radii) ==
    IF ~Ok(s) THEN s
    ELSE IF height = 0 \/ (\E r \in radii : r < 0) \/ (\A r \in radii : r = 0)
         THEN Raise(s, "AbaqusError")
    ELSE s

\* The local function of create_tower_3d (lines 149-174).
create_revolve_part(s, temp_part_name, r_bot, r_top, height) ==
    LET sketch_name == "__profile_" \o temp_part_name \o "__"
        s1 == clean_features(s, <<sketch_name>>, "Sketch")
        s2 == ConstrainedSketch(s1, sketch_name)
        s3 == clean_features(s2, <<temp_part_name>>, "Part")
        s4 == Part(s3, temp_part_name, "revolve", <<r_bot, r_top, height>>)
        s5 == BaseSolidRevolve(s4, height, {r_bot, r_top})
    IN  Del(s5, "sketches", sketch_name)

is_hollow_either(param) ==
    \/ param.r_up_tower - param.thickness_tower > 0
    \/ param.r_down_tower - param.thickness_tower > 0

\* Line 176.
is_hollow(param) ==
    /\ param.r_up_tower - param.thickness_tower > 0
    /\ param.r_down_tower - param.thickness_tower > 0

tower_target_point_inner(param) ==
    Point2(param.r_down_tower + param.r_up_tower
                - 2 * param.thickness_tower, param.h_tower)

\* Line 220: the probe point, at mid-height on the mean outer radius.
tower_target_point(param) ==
    Point2(param.r_down_tower + param.r_up_tower, param.h_tower)

\* faces.findAt((target_point, )): the faces of the part at the probe
\* point; none when the host's point query misses.
tower_faces_ext(s, part_name, param) ==
    IF host.fault = "findAt" THEN {}
    ELSE findAt(part_profile(s.parts[part_name]), tower_target_point(param))

tower_surface(s, part_name, surf_name, param) ==
    IF ~Ok(s) THEN s
    ELSE IF tower_faces_ext(s, part_name, param) = {} THEN s
    ELSE PartSurface(s, part_name, surf_name,
                     tower_faces_ext(s, part_name, param))

\* Lines 212-215: the objects the cut leaves behind are removed.
tower_cut_cleanup(s, part_name) ==
    LET s1 == DelIfExists(s, "instances", BooleanInstance(part_name))
        s2 == clean_features(s1, <<"__Inst_Out__", "__Inst_In__">>, "Instance")
    IN  clean_features(s2, <<"__Temp_Outer__", "__Temp_Inner__">>, "Part")

create_tower_3d(s, param, names) ==
    LET part_name == names.part_tower
        surf_name == names.surf_tower
        r_up == param.r_up_tower
        r_down == param.r_down_tower
        h == param.h_tower
        t == param.thickness_tower
        r_up_in == r_up - t
        r_down_in == r_down - t
        solid == create_revolve_part(s, part_name, r_down, r_up, h)
        h1 == create_revolve_part(s, "__Temp_Outer__", r_down, r_up, h)
        h2 == create_revolve_part(h1, "__Temp_Inner__", r_down_in, r_up_in, h)
        h3 == clean_features(h2, <<"__Inst_Out__", "__Inst_In__">>, "Instance")
        h4 == Instance(h3, "__Inst_Out__", "__Temp_Outer__")
        h5 == Instance(h4, "__Inst_In__", "__Temp_Inner__")
        h6 == clean_features(h5, <<part_name>>, "Part")
        h7 == InstanceFromBoolean(h6, part_name, "cut",
                                  <<r_down, r_up, h, r_down_in, r_up_in>>,
                                  {"__Inst_Out__", "__Inst_In__"})
        h8 == tower_cut_cleanup(h7, part_name)
        built == IF is_hollow(param) THEN h8 ELSE solid
    IN  Return(tower_surface(built, part_name, surf_name, param), part_name)

create_tower(s, param, names) ==
    LET part_name == names.part_tower
        s1 == DelIfExists(s, "parts", part_name)
    IN  IF param.dim_tour = "1D" THEN create_tower_1d(s1, param, names)
        ELSE create_tower_3d(s1, param, names)

-----------------------------------------------------------------------------
(* def_geometrie.py, create_fused_gbs.                                     *)

\* One primitive of Étape A: the part is cleaned, the sketch is created
\* under its fixed name, then the part, revolved from the sketch; geom
\* lists the radii of the profile, then its height.
gbs_primitive(s, part, sketch, geom) ==
    LET s1 == clean_features(s, <<part>>, "Part")
        s2 == ConstrainedSketch(s1, sketch)
        s3 == Part(s2, part, "revolve", geom)
    IN  BaseSolidRevolve(s3, geom[Len(geom)],
                         {geom[i] : i \in 1..(Len(geom) - 1)})

RECURSIVE del_sketches_if_present(_, _)
del_sketches_if_present(s, ks) ==
    IF ks = <<>> THEN s
    ELSE del_sketches_if_present(DelIfExists(s, "sketches", Head(ks)), Tail(ks))

\* Lines 359-363: one probe point per primitive, in the merged part.
pts_to_find(param) ==
    <<Point2(2 * param.plateau_radius, param.plateau_height),
      Point2(param.cone_bottom_outer_radius + param.cone_top_outer_radius,
             2 * param.plateau_height + param.cone_height),
      Point2(2 * param.cone_top_outer_radius,
             2 * param.plateau_height + 2 * param.cone_height
                + param.cyl_height)>>

\* Lines 367-371: the three point probes and the surface, inside try/except.
\* A probe point that meets no face makes findAt or Surface raise.
gbs_surface(s, part_name, surf_name, param) ==
    IF ~Ok(s) THEN s
    ELSE LET profile == part_profile(s.parts[part_name])
             pts == pts_to_find(param)
             faces_found == UNION {findAt(profile, pts[i]) : i \in DOMAIN pts}
             missed == \E i \in DOMAIN pts : findAt(profile, pts[i]) = {}
             found == IF host.fault = "findAt" \/ missed
                      THEN Raise(s, "AbaqusError") ELSE s
         IN  Except(s, PartSurface(found, part_name, surf_name, faces_found))

create_fused_gbs(s, param, names) ==
    LET part_name == names.part_gbs
        surf_name == names.surf_gbs
        h_plat == param.plateau_height
        r_plat == param.plateau_radius
        h_cone == param.cone_height
        t_cone == param.cone_thickness
        r_ext_bot == param.cone_bottom_outer_radius
        r_ext_top == param.cone_top_outer_radius
        h_cyl == param.cyl_height
        a1 == gbs_primitive(s, "__Plateau__", "__s_plat__", <<r_plat, h_plat>>)
        a2 == gbs_primitive(a1, "__Cone__", "__s_cone__",
                  <<r_ext_bot, r_ext_top, r_int_bot(param), r_int_top(param), h_cone>>)
        a3 == gbs_primitive(a2, "__Cyl__", "__s_cyl__",
                  <<r_ext_top, r_int_top(param), h_cyl>>)
        a4 == del_sketches_if_present(a3, <<"__s_plat__", "__s_cone__", "__s_cyl__">>)
        b1 == clean_features(a4, <<"__I_Plat__", "__I_Cone__", "__I_Cyl__">>, "Instance")
        b2 == Instance(b1, "__I_Plat__", "__Plateau__")
        b3 == Instance(b2, "__I_Cone__", "__Cone__")
        b4 == translate(b3, "__I_Cone__", h_plat)
        b5 == Instance(b4, "__I_Cyl__", "__Cyl__")
        b6 == translate(b5, "__I_Cyl__", h_plat + h_cone)
        c1 == clean_features(b6, <<part_name>>, "Part")
        c2 == InstanceFromBoolean(c1, part_name, "merge",
                  <<r_plat, h_plat, r_ext_bot, r_ext_top,
                    r_int_bot(param), r_int_top(param), h_cone, h_cyl>>,
                  {"__I_Plat__", "__I_Cone__", "__I_Cyl__"})
        d1 == gbs_surface(c2, part_name, surf_name, param)
        e1 == clean_features(d1, <<"__Plateau__", "__Cone__", "__Cyl__">>, "Part")
    IN  Return(e1, part_name)

-----------------------------------------------------------------------------
(* def_geometrie.py, create_assembly_geometry.                             *)

assembly_keep_instances(s) == s

\* Lines 397-398: every instance of the assembly is deleted.
assembly_clean(s) ==
    IF ~Ok(s) THEN s ELSE [s EXCEPT !.instances = NoObjects]

create_assembly_geometry(s, names, h_pipe_bottom, h_gbs_top) ==
    LET s1 == assembly_clean(s)
        p_gbs_name == names.part_gbs
        p_tower_name == names.part_tower
        missing == p_gbs_name \notin DOMAIN s1.parts
                   \/ p_tower_name \notin DOMAIN s1.parts
        s2 == Instance(s1, names.inst_gbs, p_gbs_name)
        s3 == Instance(s2, names.inst_tower, p_tower_name)
        dy == h_gbs_top - h_pipe_bottom
        s4 == IF dy # 0 THEN translate(s3, names.inst_tower, dy) ELSE s3
    IN  IF missing THEN Raise(s1, "ValueError")
        ELSE Return(s4, "instances")

\* main.py line 154.
h_gbs_top(param) ==
    param.plateau_height + param.cone_height + param.cyl_height

-----------------------------------------------------------------------------
(* The geometry the host derives from the sketches, as far as the          *)
(* bounding-box probes read it: each face, edge and vertex of a part with  *)
(* its extent along Y and its largest radius.  An instance shows the       *)
(* geometry of its part shifted by the instance's translation.             *)

Max(a, b) == IF a >= b THEN a ELSE b

Min(a, b) == IF a <= b THEN a ELSE b

\* An element with its extent along Y and along X.
Elem(ylo, yhi, xlo, xhi) == [ylo |-> ylo, yhi |-> yhi, xlo |-> xlo, xhi |-> xhi]

\* A face or circular edge of revolution about the Y axis.
Ring(ylo, yhi, rmax) == Elem(ylo, yhi, -rmax, rmax)

\* A vertex or straight edge in the sketch plane (Z = 0).
Vertex(y, r) == Elem(y, y, r, r)

\* create_revolve_part, lines 162-165: base, slant, top.
revolve_faces(g) ==
    {Ring(0, 0, g[1]), Ring(0, g[3], Max(g[1], g[2])), Ring(g[3], g[3], g[2])}

\* Outer minus inner trapezoid (lines 193-209): the inner wall is added.
cut_faces(g) ==
    revolve_faces(g) \cup {Ring(0, g[3], Max(g[4], g[5]))}

\* Lines 290-293, 303-306, 315-319 stacked by lines 335 and 339, merged
\* with keepIntersections: g = <<r_plat, h_plat, r_ext_bot, r_ext_top,
\* r_int_bot, r_int_top, h_cone, h_cyl>>.
merge_faces(g) ==
    LET y1 == g[2]
        y2 == g[2] + g[7]
        y3 == g[2] + g[7] + g[8]
    IN  {Ring(0, 0, g[1]), Ring(0, y1, g[1]), Ring(y1, y1, Max(g[1], g[3])),
         Ring(y1, y2, Max(g[3], g[4])), Ring(y1, y2, Max(g[5], g[6])),
         Ring(y2, y2, g[4]),
         Ring(y2, y3, g[4]), Ring(y2, y3, g[6]), Ring(y3, y3, g[4])}

part_faces(part) ==
    IF part.kind = "revolve" /\ Len(part.geom) = 3 THEN revolve_faces(part.geom)
    ELSE IF part.kind = "cut" THEN cut_faces(part.geom)
    ELSE IF part.kind = "merge" THEN merge_faces(part.geom)
    ELSE {}

\* A wire (line 111) has one edge on the axis; a revolved solid has its
\* rims and the seam of each lateral face.
part_edges(part) ==
    LET g == part.geom IN
    IF part.kind = "wire" THEN {Elem(0, g[1], 0, 0)}
    ELSE IF part.kind = "revolve" /\ Len(g) = 3
         THEN {Ring(0, 0, g[1]), Ring(g[3], g[3], g[2]),
               Elem(0, g[3], Min(g[1], g[2]), Max(g[1], g[2]))}
    ELSE IF part.kind = "cut"
         THEN {Ring(0, 0, g[1]), Ring(g[3], g[3], g[2]),
               Elem(0, g[3], Min(g[1], g[2]), Max(g[1], g[2])),
               Ring(0, 0, g[4]), Ring(g[3], g[3], g[5]),
               Elem(0, g[3], Min(g[4], g[5]), Max(g[4], g[5]))}
    ELSE {}

\* The inner radius of the merged GBS at height y (the interpolation of
\* lines 608-617).
gbs_inner_radius(g, y) ==
    IF y <= g[2] + g[7]
    THEN g[5] + ((g[6] - g[5]) * (y - g[2])) \div g[7]
    ELSE g[6]

\* The vertices a partition plane at height f.h adds on the inner wall.
partition_vertices(part) ==
    LET g == part.geom IN
    {Vertex(f.h, gbs_inner_radius(g, f.h)) :
        f \in {x \in part.features : x.h >= g[2] /\ x.h < g[2] + g[7] + g[8]}}

part_vertices(part) ==
    LET g == part.geom IN
    IF part.kind = "wire" THEN {Vertex(0, 0), Vertex(g[1], 0)}
    ELSE IF part.kind = "revolve" /\ Len(g) = 3
         THEN {Vertex(0, g[1]), Vertex(g[3], g[2])}
    ELSE IF part.kind = "cut"
         THEN {Vertex(0, g[1]), Vertex(g[3], g[2]),
               Vertex(0, g[4]), Vertex(g[3], g[5])}
    ELSE IF part.kind = "merge"
         THEN LET y1 == g[2]
                  y2 == g[2] + g[7]
                  y3 == g[2] + g[7] + g[8]
              IN  {Vertex(0, g[1]), Vertex(y1, g[1]), Vertex(y1, g[3]),
                   Vertex(y1, g[5]), Vertex(y2, g[4]), Vertex(y2, g[6]),
                   Vertex(y3, g[4]), Vertex(y3, g[6])}
                  \cup partition_vertices(part)
    ELSE {}

\* The geometry of instance `name`: that of the part registered under the
\* instance's part name, moved by the instance's translation.
part_elements(part, repo) ==
    IF repo = "faces" THEN part_faces(part)
    ELSE IF repo = "edges" THEN part_edges(part)
    ELSE part_vertices(part)

instance_geometry(s, name, repo) ==
    LET i == s.instances[name] IN
    IF i.part \notin DOMAIN s.parts THEN {}
    ELSE {Elem(f.ylo + i.dy, f.yhi + i.dy, f.xlo, f.xhi) :
            f \in part_elements(s.parts[i.part], repo)}

\* getByBoundingBox(yMin=, yMax=): the elements lying entirely inside the
\* band; and the same with xMin, xMax given as well.
getByBoundingBoxY(elems, yMin, yMax) ==
    {f \in elems : yMin <= f.ylo /\ f.yhi <= yMax}

getByBoundingBox(elems, xMin, xMax, yMin, yMax) ==
    {f \in getByBoundingBoxY(elems, yMin, yMax) : xMin <= f.xlo /\ f.xhi <= xMax}

-----------------------------------------------------------------------------
(* def_boundaryconditions.py.                                              *)

\* Lines 38-40: the message is printed and the function returns.
base_probe_empty(s) == Return(s, "None")

encastrement_GBS(s, names) ==
    LET inst_name == names.inst_gbs
        bottom_faces == getByBoundingBox(
                            instance_geometry(s, inst_name, "faces"),
                            -100000, 100000, -10, 10)
        s1 == AsmSet(s, "Set_Base_GBS")
        s2 == Create(s1, "BC_Encastrement_Sol" \in s1.bcs,
                     [s1 EXCEPT !.bcs = @ \cup {"BC_Encastrement_Sol"}])
    IN  IF inst_name \notin DOMAIN s.instances THEN Raise(s, "KeyError")
        ELSE IF bottom_faces = {} THEN base_probe_empty(s)
        ELSE Return(s2, "None")

create_tie_tower_gbs(s, inst_tower, inst_gbs, h_interface) ==
    LET faces_tower == getByBoundingBoxY(
                           instance_geometry(s, inst_tower, "faces"),
                           h_interface - 10, h_interface + 10)
        s1 == AsmSurface(s, "Surf_Tie_Secondary_Tower", faces_tower)
        faces_gbs == getByBoundingBoxY(
                         instance_geometry(s, inst_gbs, "faces"),
                         h_interface - 10, h_interface + 10)
        s2 == AsmSurface(s1, "Surf_Tie_Main_GBS", faces_gbs)
        s3 == DelIfExists(s2, "constraints", "Constraint_Tie_Tower_GBS")
        s4 == Create(s3, FALSE, [s3 EXCEPT !.constraints = @ \cup {"Constraint_Tie_Tower_GBS"}])
    IN  IF faces_tower = {} THEN Raise(s, "ValueError")
        ELSE IF faces_gbs = {} THEN Raise(s1, "ValueError")
        ELSE Return(s4, "None")

-----------------------------------------------------------------------------
(* def_geometrie.py, create_monitor_point_top / create_monitor_point_GBS.  *)

\* A host call that fails when the host is faulty at that call.
HostCall(s, site, done) ==
    IF ~Ok(s) THEN s
    ELSE IF host.fault = site THEN Raise(s, "AbaqusError")
    ELSE done

monitor_cleanup(s, set_name) ==
    LET s1 == DelIfExists(s, "sets", set_name)
        s2 == DelIfExists(s1, "features", "RP_Monitor_Top")
    IN  DelIfExists(s2, "constraints", "Cpl_Monitor_Top")

\* The body of the try block, lines 497-548.
monitor_top_body(s, set_name, inst_tower, h_total, dim_type) ==
    LET verts == getByBoundingBox(
                     instance_geometry(s, inst_tower, "vertices"),
                     -50, 50, h_total - 5, h_total + 5)
        edges == getByBoundingBoxY(
                     instance_geometry(s, inst_tower, "edges"),
                     h_total - 5, h_total + 5)
        r1 == HostCall(s, "ReferencePoint",
                       [s EXCEPT !.features = @ \cup {"RP_Monitor_Top"}])
        r2 == AsmSet(r1, set_name)
        r3 == AsmSurface(r2, "Surf_Monitor_Edges", edges)
        r4 == HostCall(r3, "Coupling",
                       [r3 EXCEPT !.constraints = @ \cup {"Cpl_Monitor_Top"}])
    IN  IF dim_type = "1D"
        THEN IF verts # {} THEN Return(AsmSet(s, set_name), "True")
             ELSE Return(s, "False")
        ELSE IF edges = {} THEN Return(s, "False")
             ELSE Return(r4, "True")

\* except Exception: return False.
ReturnFalseOnException(before, after) ==
    IF Ok(before) /\ ~Ok(after)
    THEN [after EXCEPT !.exc = "none", !.ret = "False"]
    ELSE after

create_monitor_point_top(s, names, inst_tower, h_total, dim_type) ==
    LET set_name == names.set_monitor
        s1 == monitor_cleanup(s, set_name)
    IN  ReturnFalseOnException(s1,
            monitor_top_body(s1, set_name, inst_tower, h_total, dim_type))

\* int(h_monitor) of line 575, h_monitor in centimetres, the key in metres.
partition_key(h_monitor) == h_monitor \div 100

\* Lines 576-587: the partition, once per key; a plane that does not cut
\* the part makes the host raise, which the try absorbs.
gbs_partition(s, part_name, h_monitor) ==
    LET p == s.parts[part_name]
        known == \E f \in p.features : f.key = partition_key(h_monitor)
        top == IF p.kind = "merge" THEN p.geom[2] + p.geom[7] + p.geom[8] ELSE 0
        cut == IF h_monitor > 0 /\ h_monitor < top
               THEN [s EXCEPT !.parts[part_name].features =
                        @ \cup {[key |-> partition_key(h_monitor), h |-> h_monitor]}]
               ELSE Raise(s, "AbaqusError")
    IN  IF ~Ok(s) \/ known THEN s ELSE Except(s, cut)

\* model.parts[part_name], a.instances[inst_name]: KeyError when absent.
Lookup(s, repo, name) ==
    IF ~Ok(s) THEN s
    ELSE IF name \in DOMAIN s[repo] THEN s
    ELSE Raise(s, "KeyError")

create_monitor_point_GBS(s, names, param, h_monitor) ==
    LET part_name == names.part_gbs
        inst_name == names.inst_gbs
        set_name == names.set_monitor
        s1 == Lookup(s, "parts", part_name)
        s2 == IF Ok(s1) THEN gbs_partition(s1, part_name, h_monitor) ELSE s1
        h_plat == param.plateau_height
        h_cone == param.cone_height
        r_bot == r_int_bot(param)
        r_top == r_int_top(param)
        in_cone == h_monitor <= h_plat + h_cone
        s3 == IF in_cone /\ h_cone = 0 THEN Raise(s2, "ZeroDivisionError") ELSE s2
        r_target == IF in_cone /\ h_cone # 0
                    THEN r_bot + ((r_top - r_bot) * (h_monitor - h_plat)) \div h_cone
                    ELSE r_top
        s4 == Lookup(s3, "instances", inst_name)
        verts == IF Ok(s4)
                 THEN getByBoundingBox(
                          instance_geometry(s4, inst_name, "vertices"),
                          r_target - 10, r_target + 10, h_monitor - 1, h_monitor + 1)
                 ELSE {}
        s5 == DelIfExists(s4, "sets", set_name)
    IN  IF ~Ok(s2) THEN s2
        ELSE IF h_monitor < h_plat THEN Return(s2, "False")
        ELSE IF verts # {} THEN Return(AsmSet(s5, set_name), "True")
        ELSE Return(s5, "False")

-----------------------------------------------------------------------------
(* def_geometrie.py, fus_outer_surfaces.                                   *)

\* inst.surfaces: the surfaces of the instance's part, in the assembly's
\* coordinates.
instance_has_surface(s, inst, key) ==
    /\ inst \in DOMAIN s.instances
    /\ s.instances[inst].part \in DOMAIN s.parts
    /\ key \in DOMAIN s.parts[s.instances[inst].part].surfaces

instance_surface(s, inst, key) ==
    LET i == s.instances[inst] IN
    {Seg(f.r1, f.y1 + i.dy, f.r2, f.y2 + i.dy, f.wall) :
        f \in s.parts[i.part].surfaces[key]}

surface_union_first(s_gbs, s_tower) == s_gbs

\* SurfaceByBoolean(..., operation=UNION), lines 467-471.
surface_union(s_gbs, s_tower) == s_gbs \cup s_tower

fus_outer_surfaces(s, inst_gbs, inst_tower, names) ==
    LET surf_gbs_key == names.surf_gbs
        surf_tower_key == names.surf_tower
        surf_global_key == names.surf_global
        s1 == DelIfExists(s, "surfaces", surf_global_key)
        s2 == AsmSurface(s1, surf_global_key,
                  surface_union(instance_surface(s, inst_gbs, surf_gbs_key),
                                instance_surface(s, inst_tower, surf_tower_key)))
    IN  IF ~instance_has_surface(s, inst_gbs, surf_gbs_key)
        THEN Raise(s, "KeyError")
        ELSE IF ~instance_has_surface(s, inst_tower, surf_tower_key)
        THEN Raise(s, "KeyError")
        ELSE Return(s2, "None")

-----------------------------------------------------------------------------
(* def_force.py.                                                           *)

\* int(h_cut) of line 10, h_cut in centimetres, the name in metres.
mask_key(h_cut) == h_cut \div 100

\* The f-string of line 10; <<>> stands for None.
field_name_of(mask_side, h_cut) == <<"Mask", mask_side, mask_key(h_cut)>>

\* create_height_mask: the database after the call; the name it returns is
\* height_mask_name.
height_mask_name(mask_side, h_cut) ==
    IF mask_side \in {"above", "below"} THEN field_name_of(mask_side, h_cut)
    ELSE <<>>

create_height_mask(s, mask_side, h_cut) ==
    LET field_name == field_name_of(mask_side, h_cut)
        s1 == DelIfExists(s, "analyticalFields", field_name)
    IN  IF ~Ok(s) \/ mask_side \notin {"above", "below"} THEN s
        ELSE [s1 EXCEPT !.analyticalFields =
                Put(@, field_name, [side |-> mask_side, h_cut |-> h_cut])]

\* A load refers to a step of the model; the host refuses an unknown step.
Load(s, load_name, step_name, load) ==
    IF ~Ok(s) THEN s
    ELSE IF step_name \notin s.steps THEN Raise(s, "AbaqusError")
    ELSE Create(s, load_name \in DOMAIN s.loads,
                [s EXCEPT !.loads = Put(@, load_name, load)])

apply_surface_traction_3d(s, step_name, load_name, region, amp_name, field_name, mag, vec) ==
    Load(s, load_name, step_name,
         [kind |-> "SurfaceTraction", region |-> region, magnitude |-> mag,
          vector |-> vec, amplitude |-> amp_name, field |-> field_name])

\* Lines 68-75: the components are the magnitude times p2 - p1.
apply_line_load_1d(s, step_name, load_name, region, amp_name, field_name, mag, vec) ==
    LET p1 == vec[1]
        p2 == vec[2]
        c == [i \in 1..3 |-> mag * (p2[i] - p1[i])]
    IN  Load(s, load_name, step_name,
             [kind |-> "LineLoad", region |-> region, magnitude |-> mag,
              vector |-> c, amplitude |-> amp_name, field |-> field_name])

\* main.py lines 69-70: r_moy, added to param_geom by the driver.
r_moy(param) == (param.r_up_tower + param.r_down_tower) \div 2

\* Line 124: str(directionVector) without blanks and parentheses, cut to six
\* characters.  For coordinates of one digit these are the three
\* coordinates of the first point, each followed by a comma.
suffix(directionVector) == directionVector[1]

load_name_of(ampName, directionVector) ==
    <<"Load", ampName, suffix(directionVector)>>

\* except KeyError: the message is printed and the function returns.
ExceptKeyError(before, after) ==
    IF Ok(before) /\ after.exc = "KeyError"
    THEN [after EXCEPT !.exc = "none"]
    ELSE after

final_mag_unconverted(magnitude, param) == magnitude

\* Lines 101-114: the magnitude handed to the worker.
final_mag(magnitude, param) ==
    IF param.dim_tour = "1D" THEN magnitude * (2 * r_moy(param))
    ELSE magnitude

apply_force_automatic(s, names, stepName, data, directionVector, magnitude, h_cut, ampName, mask_side, surf_key, param) ==
    LET is_1d == param.dim_tour = "1D"
        mag == final_mag(magnitude, param)
        s1 == IF Ok(s) /\ ampName \notin DOMAIN s.amplitudes
              THEN [s EXCEPT !.amplitudes = Put(@, ampName, data)]
              ELSE s
        s2 == create_height_mask(s1, mask_side, h_cut)
        field_mask_name == height_mask_name(mask_side, h_cut)
        load_name == load_name_of(ampName, directionVector)
        s3 == DelIfExists(s2, "loads", load_name)
        inst_name == names.inst_tower
        beam_set == /\ inst_name \in DOMAIN s3.instances
                    /\ s3.instances[inst_name].part \in DOMAIN s3.parts
                    /\ "Set_Beam_All"
                            \in s3.parts[s3.instances[inst_name].part].sets
        line == IF beam_set
                THEN apply_line_load_1d(s3, stepName, load_name,
                         <<inst_name, "Set_Beam_All">>, ampName,
                         field_mask_name, mag, directionVector)
                ELSE Raise(s3, "KeyError")
        real_surf_name == names[surf_key]
        traction == IF real_surf_name \in DOMAIN s3.surfaces
                    THEN apply_surface_traction_3d(s3, stepName, load_name,
                             <<real_surf_name>>, ampName, field_mask_name,
                             mag, directionVector)
                    ELSE Raise(s3, "KeyError")
    IN  IF is_1d THEN Return(ExceptKeyError(s3, line), "None")
        ELSE IF surf_key \notin DOMAIN names THEN Return(s3, "None")
        ELSE Return(ExceptKeyError(s3, traction), "None")

\* model.HistoryOutputRequest(name=...).
HistoryOutputRequest(s, name) ==
    Create(s, name \in s.historyOutputRequests,
           [s EXCEPT !.historyOutputRequests = @ \cup {name}])

\* Lines 241-247: the request is made again, outside the test of line 230.
history_request_again(s, names, hist_name) ==
    IF ~Ok(s) THEN s
    ELSE IF names.set_monitor \notin s.sets THEN Raise(s, "KeyError")
    ELSE HistoryOutputRequest(s, hist_name)

configure_step_and_outputs(s, names, total_time, target_frames) ==
    LET step_name == names.step_name
        s0 == IF target_frames = 0 THEN Raise(s, "ZeroDivisionError") ELSE s
        s1 == IF Ok(s0) THEN [s0 EXCEPT !.steps = @ \cup {step_name}] ELSE s0
        hist_name == "H_Out_Top_Disp"
        s2 == DelIfExists(s1, "historyOutputRequests", hist_name)
        set_monitor_name == names.set_monitor
        s3 == IF set_monitor_name \in s2.sets
              THEN HistoryOutputRequest(s2, hist_name)
              ELSE s2
    IN  Return(history_request_again(s3, names, hist_name), "None")

-----------------------------------------------------------------------------
(* def_mat.py and def_mesh.py, on a part of the model.                     *)

create_and_assign_solid_material(s, part, mat_name) ==
    LET section_name == "Section_" \o mat_name
        set_name == "Set_Material_WholePart"
    IN  IF ~Ok(s) THEN s
        ELSE [s EXCEPT !.materials = @ \cup {mat_name},
                       !.sections = @ \cup {section_name},
                       !.parts[part].sets = @ \cup {set_name},
                       !.parts[part].section = section_name]

create_and_assign_beam_material(s, part, mat_name, param) ==
    LET prof_name == "Profile_Tower_Pipe"
        sec_name == "Section_Tower_Beam"
        s1 == [s EXCEPT !.materials = @ \cup {mat_name},
                        !.profiles = @ \cup {prof_name},
                        !.sections = @ \cup {sec_name}]
    IN  IF ~Ok(s) THEN s
        ELSE IF "Set_Beam_All" \notin s.parts[part].sets THEN s1
        ELSE [s1 EXCEPT !.parts[part].section = sec_name]

\* seedPart, setMeshControls, setElementType, generateMesh.
MeshTower(s, part_obj) ==
    IF ~Ok(s) THEN s ELSE [s EXCEPT !.parts[part_obj].mesh = "C3D8R"]

MeshTower1D(s, part) ==
    IF ~Ok(s) THEN s ELSE [s EXCEPT !.parts[part].mesh = "B31"]

MeshGBS(s, part_obj) ==
    IF ~Ok(s) THEN s ELSE [s EXCEPT !.parts[part_obj].mesh = "C3D4"]

-----------------------------------------------------------------------------
(* def_job.py and def_post.py.  A file of the working directory is named   *)
(* by the job and its extension.  The result file and what is derived from *)
(* it are "complete" when they come from an analysis that ran to its end,  *)
(* "incomplete" otherwise.                                                 *)

file_of(job_name, ext) == <<job_name, ext>>

\* my_job.submit(): the solver starts and writes its files.
submit(s, job_name) ==
    IF ~Ok(s) THEN s
    ELSE [s EXCEPT !.jobs[job_name] =
                      [status |-> "SUBMITTED", submits |-> @.submits + 1],
                   !.files = Put(Put(Put(@, file_of(job_name, ".odb"),
                                         "incomplete"),
                                     file_of(job_name, ".lck"), "temp"),
                                 file_of(job_name, ".log"), "temp")]

lancement_job(s, job_name) ==
    LET s1 == DelIfExists(s, "jobs", job_name)
        s2 == Create(s1, job_name \in DOMAIN s1.jobs,
                     [s1 EXCEPT !.jobs =
                         Put(@, job_name, [status |-> "NONE", submits |-> 0])])
    IN  Return(submit(s2, job_name), job_name)

\* What a wait can end with: the analysis ran to its end; the analysis
\* aborted, which the wait reports by an exception; the wait itself was
\* interrupted from the keyboard while the analysis goes on.
WaitOutcomes == {"COMPLETED", "ABORTED", "interrupted"}

waitForCompletion(s, job_name, outcome) ==
    IF ~Ok(s) THEN s
    ELSE IF outcome = "COMPLETED"
         THEN [s EXCEPT !.jobs[job_name].status = "COMPLETED",
                        !.files = Drop(Put(@, file_of(job_name, ".odb"),
                                           "complete"),
                                       {file_of(job_name, ".lck")})]
    ELSE IF outcome = "ABORTED"
         THEN Raise([s EXCEPT !.jobs[job_name].status = "ABORTED",
                              !.files = Drop(@, {file_of(job_name, ".lck")})],
                    "AbaqusError")
    ELSE Raise(s, "KeyboardInterrupt")

\* main.py lines 304-307: try / except Exception around the wait.  A
\* KeyboardInterrupt is not an Exception and ends the script.
wait_in_try(s, job_name, outcome) ==
    LET w == waitForCompletion(s, job_name, outcome)
    IN  IF w.exc = "KeyboardInterrupt" THEN w ELSE Except(s, w)

\* export_history_to_csv: the result file is opened and the history of the
\* set is written as it stands in the file; a missing file, step or set
\* ends the function without a CSV (lines 110-116, 127-128).
export_history_to_csv(s, odb_name, step_name, set_name, csv_filename) ==
    IF ~Ok(s) THEN s
    ELSE IF odb_name \notin DOMAIN s.files THEN s
    ELSE IF step_name \notin s.steps \/ set_name \notin s.sets THEN s
    ELSE [s EXCEPT !.files = Put(@, csv_filename, s.files[odb_name])]

\* create_plot_from_csv: a missing CSV is reported (IOError) and absorbed.
create_plot_from_csv(s, csv_filename, image_filename) ==
    IF ~Ok(s) THEN s
    ELSE IF csv_filename \notin DOMAIN s.files THEN s
    ELSE [s EXCEPT !.files = Put(@, image_filename, s.files[csv_filename])]

\* clean_abaqus_temp_files: the auxiliary files of the job are removed,
\* the results are kept.
clean_abaqus_temp_files(s, job_name) ==
    IF ~Ok(s) THEN s
    ELSE [s EXCEPT !.files =
             Drop(@, {file_of(job_name, ext) : ext \in {".lck", ".log"}})]

-----------------------------------------------------------------------------
(* Inputs of the model-database specification.                             *)

\* The driver's parameter set in both tower modes, with a thin and a thick
\* tower wall (thickness >= r_up_tower gives a solid tower) and with a
\* plateau inside and beyond the 1000 m box of the base probe.
ModelParamSets ==
    {param_geom,
     [param_geom EXCEPT !.dim_tour = "3D"],
     [param_geom EXCEPT !.dim_tour = "3D", !.thickness_tower = 200],
     [param_geom EXCEPT !.dim_tour = "3D", !.plateau_radius = 150000]}

\* The host: the call at which it fails (a point probe that finds no
\* face, a ReferencePoint or Coupling that raises), and how it treats the
\* creation of an object under an existing name.
Hosts == [fault : {"none", "findAt", "ReferencePoint", "Coupling"},
          dup_raises : BOOLEAN]

\* Elevations handed to create_assembly_geometry, create_tie_tower_gbs,
\* create_monitor_point_top and create_monitor_point_GBS.
AssemblyTops(p) == {h_gbs_top(p), 0}

TieHeights(p) == {h_gbs_top(p), p.h_tower}

MonitorTops(p) == {h_gbs_top(p) + p.h_tower}

MonitorHeights(p) == {p.h_monitor, 100}

\* configure_step_and_outputs: the duration (seconds) and the frame count.
StepTimes == {5}

StepFrames == {50}

\* apply_force_automatic: the two wind directions of the driver, its
\* amplitude names, a peak pressure, the sea level h_mer of main.py line 72,
\* a mask side the function knows and one it does not, and a key of the
\* names dictionary next to one that is not in it.
ForceDirections == {<<<<0, 0, 0>>, <<1, 0, 0>>>>, <<<<0, 0, 0>>, <<0, 0, 1>>>>}

ForceMagnitudes == {5000}

ForceAmplitudes == {"Amp_Vent_X", "Amp_Vent_Z"}

MaskSides == {"above", "none"}

SurfKeys == {"surf_global", "surf_water"}

h_mer == 4000

\* A normalised amplitude table: (time, factor) pairs, factor in tenths.
data_norm == <<<<0, 0>>, <<2, 10>>, <<4, 0>>>>

\* Another table, as a later call of the driver's loop would pass.
data_other == <<<<0, 0>>, <<4, 10>>>>

ForceData == {data_norm, data_other}

\* Cutoffs (cm): the sea level and another cutoff in the same metre.
CutHeights == {h_mer, h_mer + 50}

-----------------------------------------------------------------------------
(* The build sequence being followed: run counts the calls of              *)
(* create_tower, create_fused_gbs, create_assembly_geometry that returned  *)
(* normally, in that order and with nothing in between, up to two rounds;  *)
(* snap is the database and the assembly arguments at the end of the       *)
(* first round.                                                            *)

BuildSequence ==
    <<"create_tower", "create_fused_gbs", "create_assembly_geometry">>

NoSnap == [db |-> EmptyModel, arg |-> <<>>]

NextRun(op, arg, s) ==
    IF ~Ok(s) THEN 0
    ELSE IF run = 6
         THEN IF op = "create_tower" THEN 4 ELSE 0
    ELSE IF op = BuildSequence[(run % 3) + 1]
         THEN IF run = 5 /\ arg # snap.arg THEN 3 ELSE run + 1
    ELSE IF op = "create_tower" THEN 1
    ELSE 0

Call(op, arg, s) ==
    /\ mdl' = s
    /\ last' = [op |-> op, arg |-> arg,
                again |-> op = last.op /\ Ok(mdl)]
    /\ run' = NextRun(op, arg, s)
    /\ snap' = IF run' = 3 THEN [db |-> Begin(s), arg |-> arg]
               ELSE IF run' > 3 THEN snap
               ELSE NoSnap
    /\ UNCHANGED <<params, result, host>>

-----------------------------------------------------------------------------
(* Actions: one per function of the source.                                *)

CheckParameters ==
    /\ result = Unchecked
    /\ result' = check_parameters(params)
    /\ UNCHANGED <<params, mdl, host, last, run, snap>>

CreateTower ==
    Call("create_tower", <<>>, create_tower(Begin(mdl), params, names_dict))

CreateFusedGbs ==
    Call("create_fused_gbs", <<>>, create_fused_gbs(Begin(mdl), params, names_dict))

CreateAssemblyGeometry ==
    \E h \in AssemblyTops(params) :
        Call("create_assembly_geometry", <<0, h>>,
             create_assembly_geometry(Begin(mdl), names_dict, 0, h))

EncastrementGBS ==
    Call("encastrement_GBS", <<>>, encastrement_GBS(Begin(mdl), names_dict))

\* The caller holds the two instance objects create_assembly_geometry
\* returned.
CreateTieTowerGbs ==
    /\ {names_dict.inst_tower, names_dict.inst_gbs} \subseteq DOMAIN mdl.instances
    /\ \E h \in TieHeights(params) :
        Call("create_tie_tower_gbs", <<h>>,
             create_tie_tower_gbs(Begin(mdl), names_dict.inst_tower,
                                  names_dict.inst_gbs, h))

CreateMonitorPointTop ==
    /\ names_dict.inst_tower \in DOMAIN mdl.instances
    /\ \E h \in MonitorTops(params), dim_type \in {"1D", "3D"} :
        Call("create_monitor_point_top", <<h, dim_type>>,
             create_monitor_point_top(Begin(mdl), names_dict,
                                      names_dict.inst_tower, h, dim_type))

CreateMonitorPointGBS ==
    \E h \in MonitorHeights(params) :
        Call("create_monitor_point_GBS", <<h>>,
             create_monitor_point_GBS(Begin(mdl), names_dict, params, h))

FusOuterSurfaces ==
    /\ {names_dict.inst_tower, names_dict.inst_gbs} \subseteq DOMAIN mdl.instances
    /\ Call("fus_outer_surfaces", <<>>,
            fus_outer_surfaces(Begin(mdl), names_dict.inst_gbs,
                               names_dict.inst_tower, names_dict))

ConfigureStepAndOutputs ==
    \E total_time \in StepTimes, target_frames \in StepFrames :
        Call("configure_step_and_outputs", <<total_time, target_frames>>,
             configure_step_and_outputs(Begin(mdl), names_dict, total_time,
                                        target_frames))

\* One call of apply_force_automatic, its amplitude table drawn from
\* tables and its cutoff from cutoffs.
ApplyForce(tables, cutoffs) ==
    \E directionVector \in ForceDirections, magnitude \in ForceMagnitudes,
       ampName \in ForceAmplitudes, mask_side \in MaskSides,
       surf_key \in SurfKeys, data \in tables, h_cut \in cutoffs :
        Call("apply_force_automatic",
             <<directionVector, magnitude, ampName, mask_side, surf_key,
               data, h_cut>>,
             apply_force_automatic(Begin(mdl), names_dict,
                 names_dict.step_name, data, directionVector,
                 magnitude, h_cut, ampName, mask_side, surf_key, params))

\* The driver's calls (main.py lines 264-291): one table, the sea level.
ApplyForceAutomatic == ApplyForce({data_norm}, {h_mer})

\* Calls with any table and any cutoff.
ApplyForceAutomaticAny == ApplyForce(ForceData, CutHeights)

\* main.py lines 300-332, one action per statement; arg holds the line.
LancementJob ==
    Call("lancement_job", <<300>>,
         lancement_job(Begin(mdl), names_dict.job_name))

WaitForCompletion ==
    \E outcome \in WaitOutcomes :
        Call("waitForCompletion", <<304, outcome>>,
             wait_in_try(Begin(mdl), names_dict.job_name, outcome))

ExportHistoryToCsv ==
    Call("export_history_to_csv", <<319>>,
         export_history_to_csv(Begin(mdl),
             file_of(names_dict.job_name, ".odb"), names_dict.step_name,
             names_dict.set_monitor,
             file_of(names_dict.job_name, "_Resultats.csv")))

CreatePlotFromCsv ==
    Call("create_plot_from_csv", <<327>>,
         create_plot_from_csv(Begin(mdl),
             file_of(names_dict.job_name, "_Resultats.csv"),
             file_of(names_dict.job_name, "_Courbe.png")))

CleanAbaqusTempFiles ==
    Call("clean_abaqus_temp_files", <<332>>,
         clean_abaqus_temp_files(Begin(mdl), names_dict.job_name))

-----------------------------------------------------------------------------
(* Specifications.                                                         *)

\* last: the function called last, its arguments, and whether it is a
\* repetition of the call before it, which returned normally.
NoCall == [op |-> "none", arg |-> <<>>, again |-> FALSE]

\* The model database under the functions of the source, from an empty
\* model.
Init ==
    /\ params \in ModelParamSets
    /\ host \in Hosts
    /\ result = Unchecked
    /\ mdl = EmptyModel
    /\ last = NoCall
    /\ run = 0
    /\ snap = NoSnap

Next ==
    \/ CreateTower
    \/ CreateFusedGbs
    \/ CreateAssemblyGeometry
    \/ EncastrementGBS
    \/ CreateTieTowerGbs
    \/ CreateMonitorPointTop
    \/ CreateMonitorPointGBS

Spec == Init /\ [][Next]_vars

\* The validator alone, over its input space.
InitCheck ==
    /\ params \in CheckParamSpace
    /\ host = [fault |-> "none", dup_raises |-> TRUE]
    /\ result = Unchecked
    /\ mdl = EmptyModel
    /\ last = NoCall
    /\ run = 0
    /\ snap = NoSnap

NextCheck == CheckParameters

SpecCheck == InitCheck /\ [][NextCheck]_vars

(***************************************************************************)
(* process_load_data (def_force.py).  A series is a sequence of points     *)
(* <<t, v>>.  Raw values and the magnitude are integers in tenths, so that *)
(* the threshold 1.0 is the integer 10; a value of the returned series is  *)
(* the exact fraction [num, den]: v / max_val on the normalising branch,   *)
(* the raw value v / 10 on the other.                                      *)
(***************************************************************************)
Abs(x) == IF x >= 0 THEN x ELSE -x

Frac(num, den) == [num |-> num, den |-> den]

\* max(values) if values else 0.0, without the abs() of line 173.
max_signed(raw_data) ==
    IF raw_data = <<>> THEN 0
    ELSE CHOOSE m \in {raw_data[i][2] : i \in DOMAIN raw_data} :
             \A i \in DOMAIN raw_data : raw_data[i][2] <= m

\* values = [abs(point[1]) ...]; max_val = max(values) if values else 0.0
max_val(raw_data) ==
    IF raw_data = <<>> THEN 0
    ELSE CHOOSE m \in {Abs(raw_data[i][2]) : i \in DOMAIN raw_data} :
             \A i \in DOMAIN raw_data : Abs(raw_data[i][2]) <= m

\* times = [point[0] ...]; duration = max(times) if times else 0.0
duration_of(raw_data) ==
    IF raw_data = <<>> THEN 0
    ELSE CHOOSE d \in {raw_data[i][1] : i \in DOMAIN raw_data} :
             \A i \in DOMAIN raw_data : raw_data[i][1] <= d

process_load_data(raw_data) ==
    IF max_val(raw_data) > 10
    THEN [norm_data |-> [i \in DOMAIN raw_data |->
                            <<raw_data[i][1],
                              Frac(raw_data[i][2], max_val(raw_data))>>],
          magnitude |-> max_val(raw_data),
          duration  |-> duration_of(raw_data)]
    ELSE [norm_data |-> [i \in DOMAIN raw_data |->
                            <<raw_data[i][1], Frac(raw_data[i][2], 10)>>],
          magnitude |-> 10,
          duration  |-> duration_of(raw_data)]

\* The input space of process_load_data: series of at most MaxPoints
\* points, time stamps in any order, values below, at and above 1.0 and of
\* both signs.
MaxPoints == 2

RawTimes == {0, 2}

RawValues == {-20, 0, 5, 10, 20}

RawSeries ==
    UNION {[1..n -> RawTimes \X RawValues] : n \in 0..MaxPoints}

\* One call of process_load_data; the returned tuple is kept in result.
ProcessLoadData ==
    /\ \E raw_data \in RawSeries :
          /\ last' = [op |-> "process_load_data", arg |-> <<raw_data>>,
                      again |-> FALSE]
          /\ result' = process_load_data(raw_data)
    /\ UNCHANGED <<params, mdl, host, run, snap>>

InitData ==
    /\ params = param_geom
    /\ host = [fault |-> "none", dup_raises |-> TRUE]
    /\ result = Unchecked
    /\ mdl = EmptyModel
    /\ last = NoCall
    /\ run = 0
    /\ snap = NoSnap

NextData == ProcessLoadData

SpecData == InitData /\ [][NextData]_vars

\* The geometry stage over a space of parameter sets (centimetres): the
\* driver validates, then builds the tower and the GBS.  The space holds
\* the driver's own values and, for the keys the validator reads loosely,
\* values at and below zero and radii on either side of each other.
GeomParamSpace ==
    {[param_geom EXCEPT !.dim_tour = d, !.r_up_tower = ru,
                        !.cone_height = hc, !.cone_thickness = t,
                        !.cone_bottom_outer_radius = rb,
                        !.plateau_radius = rp] :
        d \in {"1D", "3D"}, ru \in {200, 0, -100}, hc \in {2730, 0, -100},
        t \in {50, 350, 400}, rb \in {1000, 300}, rp \in {1550, 500}}

InitGeom ==
    /\ params \in GeomParamSpace
    /\ host = [fault |-> "none", dup_raises |-> TRUE]
    /\ result = Unchecked
    /\ mdl = EmptyModel
    /\ last = NoCall
    /\ run = 0
    /\ snap = NoSnap

\* main.py, lines 116-120: nothing is built from a rejected parameter set.
NextGeom ==
    \/ CheckParameters
    \/ result = Returned /\ last.op = "none" /\ CreateTower
    \/ /\ result = Returned
       /\ last.op = "create_tower" /\ Ok(mdl)
       /\ CreateFusedGbs

SpecGeom == InitGeom /\ [][NextGeom]_vars

\* The loading stage: the geometry is built once, in the driver's order,
\* then the global surface, the monitor point, the step and the loads are
\* requested in any order, any number of times.
LoadParamSets ==
    {param_geom, [param_geom EXCEPT !.dim_tour = "3D"]}

InitLoad ==
    /\ params \in LoadParamSets
    /\ host \in Hosts
    /\ result = Unchecked
    /\ mdl = EmptyModel
    /\ last = NoCall
    /\ run = 0
    /\ snap = NoSnap

Assembled ==
    {names_dict.inst_tower, names_dict.inst_gbs} \subseteq DOMAIN mdl.instances

NextLoad ==
    \/ names_dict.part_tower \notin DOMAIN mdl.parts /\ CreateTower
    \/ /\ names_dict.part_tower \in DOMAIN mdl.parts
       /\ names_dict.part_gbs \notin DOMAIN mdl.parts
       /\ CreateFusedGbs
    \/ /\ {names_dict.part_tower, names_dict.part_gbs} \subseteq DOMAIN mdl.parts
       /\ ~Assembled
       /\ CreateAssemblyGeometry
    \/ Assembled /\ FusOuterSurfaces
    \/ Assembled /\ CreateMonitorPointTop
    \/ ConfigureStepAndOutputs
    \/ ApplyForceAutomatic

SpecLoad == InitLoad /\ [][NextLoad]_vars

\* The loads alone: the driver's stages in the driver's order up to the
\* step (main.py lines 119-255, the global surface in 3D only), then calls
\* of apply_force_automatic with any table, cutoff, direction and amplitude
\* name, any number of times.
InitForce ==
    /\ params \in LoadParamSets
    /\ host = [fault |-> "none", dup_raises |-> TRUE]
    /\ result = Returned
    /\ mdl = EmptyModel
    /\ last = NoCall
    /\ run = 0
    /\ snap = NoSnap

NextForce ==
    \/ last.op = "none" /\ CreateTower
    \/ last.op = "create_tower" /\ CreateFusedGbs
    \/ last.op = "create_fused_gbs" /\ CreateAssemblyGeometry
    \/ /\ last.op = "create_assembly_geometry"
       /\ params.dim_tour = "3D"
       /\ FusOuterSurfaces
    \/ /\ \/ last.op = "fus_outer_surfaces"
          \/ last.op = "create_assembly_geometry" /\ params.dim_tour = "1D"
       /\ ConfigureStepAndOutputs
    \/ /\ last.op \in {"configure_step_and_outputs", "apply_force_automatic"}
       /\ ApplyForceAutomaticAny

SpecForce == InitForce /\ [][NextForce]_vars

\* The end of the driver (main.py lines 300-332) on a model that has its
\* step and, when the monitor point was created, its monitor set.  The
\* statements run in the script's order and an exception in flight ends the
\* script; the script may then be run again in the same session, where
\* mdb.jobs and the working directory are as the previous run left them.
\* The working directory may hold the results of an earlier session.
OldResults ==
    LET f(ext) == file_of(names_dict.job_name, ext)
    IN  {NoObjects,
         Put(NoObjects, f(".odb"), "complete"),
         Put(Put(NoObjects, f(".odb"), "complete"),
             f("_Resultats.csv"), "complete"),
         Put(Put(Put(NoObjects, f(".odb"), "complete"),
                 f("_Resultats.csv"), "complete"),
             f("_Courbe.png"), "complete")}

JobModels ==
    {[EmptyModel EXCEPT !.steps = {names_dict.step_name}, !.sets = m,
                        !.files = old] :
        m \in SUBSET {names_dict.set_monitor}, old \in OldResults}

InitJob ==
    /\ params \in LoadParamSets
    /\ host = [fault |-> "none", dup_raises |-> TRUE]
    /\ result = Returned
    /\ mdl \in JobModels
    /\ last = NoCall
    /\ run = 0
    /\ snap = NoSnap

NextJob ==
    \/ /\ \/ last.op \in {"none", "clean_abaqus_temp_files"}
          \/ ~Ok(mdl)
       /\ LancementJob
    \/ Ok(mdl) /\ last.op = "lancement_job" /\ WaitForCompletion
    \/ Ok(mdl) /\ last.op = "waitForCompletion" /\ ExportHistoryToCsv
    \/ Ok(mdl) /\ last.op = "export_history_to_csv" /\ CreatePlotFromCsv
    \/ Ok(mdl) /\ last.op = "create_plot_from_csv" /\ CleanAbaqusTempFiles

SpecJob == InitJob /\ [][NextJob]_vars

\* One call of the pipeline, by the name of the function, with the
\* arguments main.py computes (lines 154, 162-163, 181, 184, 201-202).
stage(op, s, names, param) ==
    CASE op = "create_tower" -> create_tower(s, param, names)
      [] op = "create_fused_gbs" -> create_fused_gbs(s, param, names)
      [] op = "create_assembly_geometry" ->
            create_assembly_geometry(s, names, 0, h_gbs_top(param))
      [] op = "create_tie_tower_gbs" ->
            create_tie_tower_gbs(s, names.inst_tower, names.inst_gbs,
                                 h_gbs_top(param))
      [] op = "encastrement_GBS" -> encastrement_GBS(s, names)
      [] op = "create_monitor_point_top" ->
            create_monitor_point_top(s, names, names.inst_tower,
                                     h_gbs_top(param) + param.h_tower, "1D")
      [] op = "fus_outer_surfaces" ->
            IF param.dim_tour = "3D"
            THEN fus_outer_surfaces(s, names.inst_gbs, names.inst_tower, names)
            ELSE s

Pipeline ==
    <<"create_tower", "create_fused_gbs", "create_assembly_geometry",
      "create_tie_tower_gbs", "encastrement_GBS", "create_monitor_point_top",
      "fus_outer_surfaces">>

StageIndex(op) == CHOOSE i \in 1..Len(Pipeline) : Pipeline[i] = op

\* A second names mapping, disjoint from the driver's.
names_b == [k \in DOMAIN names_dict |-> names_dict[k] \o "_B"]

PipelineNames == [A |-> names_dict, B |-> names_b]

\* The pipeline run with the names A, then with the names B, on the same
\* model; last.arg holds the mapping in use.  An exception ends the script.
PipelineStage ==
    /\ Ok(mdl)
    /\ \E tag \in DOMAIN PipelineNames, i \in 1..Len(Pipeline) :
        /\ IF last.op = "none" THEN tag = "A" /\ i = 1
           ELSE IF StageIndex(last.op) < Len(Pipeline)
                THEN tag = last.arg[1] /\ i = StageIndex(last.op) + 1
           ELSE last.arg[1] = "A" /\ tag = "B" /\ i = 1
        /\ Call(Pipeline[i], <<tag>>,
                stage(Pipeline[i], Begin(mdl), PipelineNames[tag], params))

SpecTwo == Init /\ [][PipelineStage]_vars

\* main.py, statement by statement: the lines of its calls, in the order
\* of the script.
MainLinesGeometryFirst ==
    <<119, 116, 120, 128, 135, 142, 148, 159, 170, 176, 184, 202>>

MainLines ==
    <<116, 119, 120, 128, 135, 142, 148, 159, 170, 176, 184, 202>>

LineIndex(line) == CHOOSE i \in 1..Len(MainLines) : MainLines[i] = line

\* The function called at a line of main.py.
main_op(line, param) ==
    CASE line = 116 -> "check_parameters"
      [] line = 119 -> "create_tower"
      [] line = 120 -> "create_fused_gbs"
      [] line = 128 -> IF param.dim_tour = "1D"
                       THEN "create_and_assign_beam_material"
                       ELSE "create_and_assign_solid_material"
      [] line = 135 -> "create_and_assign_solid_material"
      [] line = 142 -> IF param.dim_tour = "1D" THEN "MeshTower1D"
                       ELSE "MeshTower"
      [] line = 148 -> "MeshGBS"
      [] line = 159 -> "create_assembly_geometry"
      [] line = 170 -> "create_tie_tower_gbs"
      [] line = 176 -> "encastrement_GBS"
      [] line = 184 -> "create_monitor_point_top"
      [] line = 202 -> "fus_outer_surfaces"

\* The call at a line of main.py.  Line 170 passes five arguments to
\* create_tie_tower_gbs, which takes four: the call raises TypeError.
main_call(line, s, param) ==
    CASE line = 128 ->
            IF param.dim_tour = "1D"
            THEN create_and_assign_beam_material(s, names_dict.part_tower,
                                                 "Steel_S355", param)
            ELSE create_and_assign_solid_material(s, names_dict.part_tower,
                                                  "Steel_S355")
      [] line = 135 ->
            create_and_assign_solid_material(s, names_dict.part_gbs,
                                             "Concrete_C50")
      [] line = 142 ->
            IF param.dim_tour = "1D"
            THEN MeshTower1D(s, names_dict.part_tower)
            ELSE MeshTower(s, names_dict.part_tower)
      [] line = 148 -> MeshGBS(s, names_dict.part_gbs)
      [] line = 170 -> Raise(s, "TypeError")
      [] OTHER -> stage(main_op(line, param), s, names_dict, param)

\* The next statement of the script; an exception ends it.
MainStep ==
    /\ Ok(mdl) /\ ~result.raised
    /\ \E i \in 1..Len(MainLines) :
        /\ i = IF last.op = "none" THEN 1 ELSE LineIndex(last.arg[1]) + 1
        /\ IF MainLines[i] = 116
           THEN /\ result' = check_parameters(params)
                /\ last' = [op |-> "check_parameters", arg |-> <<116>>,
                            again |-> FALSE]
                /\ UNCHANGED <<params, mdl, host, run, snap>>
           ELSE Call(main_op(MainLines[i], params), <<MainLines[i]>>,
                     main_call(MainLines[i], Begin(mdl), params))

\* The driver's parameters and variants of them, one of which the
\* validator refuses.
MainParamSets ==
    ModelParamSets \cup {[param_geom EXCEPT !.thickness_tower = 0]}

InitMain ==
    /\ params \in MainParamSets
    /\ host \in Hosts
    /\ result = Unchecked
    /\ mdl = EmptyModel
    /\ last = NoCall
    /\ run = 0
    /\ snap = NoSnap

SpecMain == InitMain /\ [][MainStep]_vars

\* Failure and re-invocation of a geometry function.  The build starts
\* with parameters one revolve refuses; after a failure the caller adjusts
\* the parameters and calls the same function again.  Here run is 1 while
\* a failed call awaits its re-invocation and 2 when the re-invocation has
\* returned normally, and snap holds the database before the first failed
\* call and the function that failed.
FailingParamSets ==
    {[param_geom EXCEPT !.dim_tour = "3D", !.cone_height = 0],
     [param_geom EXCEPT !.dim_tour = "3D", !.h_tower = 0],
     [param_geom EXCEPT !.cone_height = 0]}

CorrectedParamSets ==
    {[param_geom EXCEPT !.dim_tour = "3D"],
     [param_geom EXCEPT !.dim_tour = "3D", !.thickness_tower = 200]}

InitRetry ==
    /\ params \in FailingParamSets
    /\ host \in Hosts
    /\ result = Unchecked
    /\ mdl = EmptyModel
    /\ last = NoCall
    /\ run = 0
    /\ snap = NoSnap

Attempt ==
    \E op \in {"create_tower", "create_fused_gbs"} :
        LET s == stage(op, Begin(mdl), names_dict, params) IN
        /\ IF run = 1 THEN op = snap.arg[1] /\ params \in CorrectedParamSets
           ELSE /\ run = 0
                /\ op = IF last.op = "none" THEN "create_tower"
                        ELSE "create_fused_gbs"
                /\ last.op # "create_fused_gbs"
        /\ mdl' = s
        /\ last' = [op |-> op, arg |-> <<>>, again |-> op = last.op /\ Ok(mdl)]
        /\ run' = IF ~Ok(s) THEN 1 ELSE IF run = 1 THEN 2 ELSE 0
        /\ snap' = IF run = 1 THEN snap
                   ELSE IF ~Ok(s) THEN [db |-> Begin(mdl), arg |-> <<op>>]
                   ELSE NoSnap
        /\ UNCHANGED <<params, result, host>>

AdjustParams ==
    /\ run = 1
    /\ params' \in CorrectedParamSets
    /\ UNCHANGED <<result, mdl, host, last, run, snap>>

NextRetry == Attempt \/ AdjustParams

SpecRetry == InitRetry /\ [][NextRetry]_vars

-----------------------------------------------------------------------------
(* Properties of check_parameters (under SpecCheck).                       *)

Checked == result # Unchecked

Accepted == Checked /\ ~result.raised

LengthKeys ==
    {"r_up_tower", "r_down_tower", "h_tower", "thickness_tower",
     "plateau_radius", "plateau_height", "cone_height",
     "cone_top_outer_radius", "cone_bottom_outer_radius", "cone_thickness",
     "cyl_height"}

\* The seven keys in the order the claims give for check (a).
PositivityOrder ==
    <<"cone_thickness", "cone_top_outer_radius", "plateau_radius",
      "plateau_height", "cyl_height", "thickness_tower", "h_tower">>

NonPositive == {i \in 1..7 : params[PositivityOrder[i]] <= 0}

FirstNonPositive == CHOOSE i \in NonPositive : \A j \in NonPositive : i <= j

HoleRadius == params.cone_top_outer_radius - params.cone_thickness

ConeValid == params.cone_bottom_outer_radius > params.cone_thickness

\* C1: check_parameters returns without raising if and only if every
\* length and thickness of the parameter set is strictly positive, the cone
\* bottom outer radius exceeds the cone thickness, and the tower base radius
\* lies in (hole radius, outer radius]; otherwise it raises.
C1_ReturnsIffAllInvariantsHold ==
    Checked =>
        (~result.raised <=>
            /\ \A k \in LengthKeys : params[k] > 0
            /\ ConeValid
            /\ HoleRadius < params.r_down_tower
            /\ params.r_down_tower <= params.cone_top_outer_radius)

\* C2: for every parameter set check_parameters accepts, both inner radii
\* of the hollow GBS profiles (bottom and top outer radius minus the cone
\* thickness) are strictly positive.
C2_AcceptedInnerRadiiPositive ==
    Accepted => r_int_bot(params) > 0 /\ r_int_top(params) > 0

\* C3: with the positivity and cone checks passed, a tower base radius
\* equal to the GBS top outer radius or strictly between the hole radius
\* and the outer radius is accepted, one at or below the hole radius is
\* rejected with the hole error, and one above the outer radius with the
\* overhang error.
C3_InterfaceStrictAtHoleInclusiveAtEdge ==
    (Checked /\ NonPositive = {} /\ ConeValid) =>
        /\ params.r_down_tower = params.cone_top_outer_radius => ~result.raised
        /\ (HoleRadius < params.r_down_tower
            /\ params.r_down_tower < params.cone_top_outer_radius)
                => ~result.raised
        /\ params.r_down_tower <= HoleRadius
                => result.raised /\ result.check = "hole"
        /\ params.r_down_tower > params.cone_top_outer_radius
                => result.raised /\ result.check = "overhang"

\* The scenario of the specification: outer 3.5 m, thickness 0.5 m, a
\* tower base of 3.01 m is accepted.
C3_Witness ==
    /\ Checked
    /\ params.cone_top_outer_radius = 350 /\ params.cone_thickness = 50
    /\ params.r_down_tower = 301
    /\ ~result.raised

\* C4: check_parameters raises the error of the earliest violated check in
\* the order (a) positivity of the seven keys in list order, (b) cone
\* bottom radius against thickness, (c1) tower base against the hole,
\* (c2) tower base against the outer radius, whatever later checks are
\* violated as well.
C4_FailFastInOrder ==
    Checked =>
        IF NonPositive # {}
        THEN result = Raised("positive", PositivityOrder[FirstNonPositive])
        ELSE IF ~ConeValid THEN result.raised /\ result.check = "cone"
        ELSE IF params.r_down_tower <= HoleRadius
             THEN result.raised /\ result.check = "hole"
        ELSE IF params.r_down_tower > params.cone_top_outer_radius
             THEN result.raised /\ result.check = "overhang"
        ELSE ~result.raised

\* Three checks violated at once (two keys of (a), and (b)); the error is
\* that of the first key.
C4_Witness ==
    /\ Checked
    /\ params.cone_thickness > 0 /\ params.cone_top_outer_radius > 0
    /\ params.plateau_radius <= 0 /\ params.h_tower <= 0
    /\ ~ConeValid
    /\ params.r_down_tower <= HoleRadius
    /\ result = Raised("positive", "plateau_radius")

-----------------------------------------------------------------------------
(* Properties of the model database (under Spec).                          *)

TransientParts ==
    {"__Temp_Outer__", "__Temp_Inner__", "__Plateau__", "__Cone__", "__Cyl__"}

TransientInstances(names) ==
    {"__Inst_Out__", "__Inst_In__", "__I_Plat__", "__I_Cone__", "__I_Cyl__",
     names.part_tower \o "-1", names.part_gbs \o "-1"}

\* C5: after the build sequence (create_tower, create_fused_gbs,
\* create_assembly_geometry) has run twice in succession with the same
\* arguments, the model holds exactly the tower part and the GBS part, no
\* sketch and exactly the two named instances, and it equals the model at
\* the end of the first run.
C5_BuildTwiceIsIdempotent ==
    run = 6 =>
        /\ DOMAIN mdl.parts = {names_dict.part_tower, names_dict.part_gbs}
        /\ mdl.sketches = {}
        /\ DOMAIN mdl.instances = {names_dict.inst_tower, names_dict.inst_gbs}
        /\ Begin(mdl) = snap.db

\* Two complete runs with a hollow 3D tower.
C5_Witness ==
    /\ run = 6
    /\ names_dict.part_tower \in DOMAIN mdl.parts
    /\ mdl.parts[names_dict.part_tower].kind = "cut"
    /\ names_dict.surf_gbs \in DOMAIN mdl.parts[names_dict.part_gbs].surfaces

\* C6: a creation function invoked twice in a row (the first call having
\* returned normally) never attempts to create an object under a name that
\* already exists.
C6_NoDuplicateNameOnRepeat ==
    last.again => ~mdl.dup

\* C7: when create_tower or create_fused_gbs returns, no temporary part, no
\* sketch and no temporary or boolean-generated instance is registered.
C7_NoTransientLeft ==
    (last.op \in {"create_tower", "create_fused_gbs"} /\ Ok(mdl)) =>
        /\ DOMAIN mdl.parts \cap TransientParts = {}
        /\ mdl.sketches = {}
        /\ DOMAIN mdl.instances \cap TransientInstances(names_dict) = {}

\* C8: encastrement_GBS and create_tie_tower_gbs never return normally
\* without having applied their boundary condition or tie, and when they
\* raise they have created nothing.
C8_EmptyProbeIsHardError ==
    [][last'.op \in {"encastrement_GBS", "create_tie_tower_gbs"} =>
        /\ (last'.op = "encastrement_GBS" /\ Ok(mdl'))
                => "BC_Encastrement_Sol" \in mdl'.bcs
        /\ (last'.op = "create_tie_tower_gbs" /\ Ok(mdl'))
                => "Constraint_Tie_Tower_GBS" \in mdl'.constraints
        /\ ~Ok(mdl') => Begin(mdl') = Begin(mdl)]_vars

\* C9: whenever create_tower (3D) or create_fused_gbs returns normally, the
\* part carries its named skin surface.
C9_ReturnedPartCarriesSkin ==
    /\ (last.op = "create_tower" /\ params.dim_tour = "3D" /\ Ok(mdl))
            => names_dict.surf_tower
                    \in DOMAIN mdl.parts[names_dict.part_tower].surfaces
    /\ (last.op = "create_fused_gbs" /\ Ok(mdl))
            => names_dict.surf_gbs
                    \in DOMAIN mdl.parts[names_dict.part_gbs].surfaces

\* C10: create_monitor_point_top and create_monitor_point_GBS always end by
\* returning a Boolean, whatever the model state; no exception reaches the
\* caller.
C10_MonitorNeverRaises ==
    last.op \in {"create_monitor_point_top", "create_monitor_point_GBS"} =>
        Ok(mdl) /\ mdl.ret \in {"True", "False"}

C15_CutIffBothInnerRadiiPositive ==
    (last.op = "create_tower" /\ params.dim_tour = "3D" /\ Ok(mdl)) =>
        LET tower == mdl.parts[names_dict.part_tower]
            t == params.thickness_tower
            r_up == params.r_up_tower
            r_down == params.r_down_tower
        IN  IF r_up - t > 0 /\ r_down - t > 0
            THEN /\ tower.kind = "cut"
                 /\ tower.geom = <<r_down, r_up, params.h_tower,
                                   r_down - t, r_up - t>>
            ELSE /\ tower.kind = "revolve"
                 /\ tower.geom = <<r_down, r_up, params.h_tower>>
                 /\ DOMAIN mdl.parts \cap {"__Temp_Outer__", "__Temp_Inner__"} = {}
                 /\ DOMAIN mdl.instances \cap
                        {"__Inst_Out__", "__Inst_In__",
                         BooleanInstance(names_dict.part_tower)} = {}

\* A solid tower whose lower inner radius alone is positive.
C15_Witness ==
    /\ last.op = "create_tower" /\ params.dim_tour = "3D" /\ Ok(mdl)
    /\ params.r_up_tower - params.thickness_tower <= 0
    /\ params.r_down_tower - params.thickness_tower > 0
    /\ mdl.parts[names_dict.part_tower].kind = "revolve"

\* C16 (under SpecTwo): after the pipeline has run with the names A, running
\* it with the disjoint names B leaves every part and instance produced for
\* A in the model, each instance still an instance of A's part.
C16_SecondPipelineKeepsFirst ==
    (last.op # "none" /\ last.arg = <<"B">>) =>
        /\ {names_dict.part_tower, names_dict.part_gbs} \subseteq DOMAIN mdl.parts
        /\ {names_dict.inst_tower, names_dict.inst_gbs}
                \subseteq DOMAIN mdl.instances
        /\ mdl.instances[names_dict.inst_tower].part = names_dict.part_tower
        /\ mdl.instances[names_dict.inst_gbs].part = names_dict.part_gbs

\* C19 (under SpecCheck): every ValueError of check_parameters carries a
\* message that designates the offending parameter and states the limit
\* its value must respect, for each of the four checks.
C19_MessageNamesParameterAndRange ==
    (Checked /\ result.raised) =>
        /\ error_message(params).subject # ""
        /\ error_message(params).bound # <<>>

-----------------------------------------------------------------------------
(* Properties of the driver (under SpecMain).                              *)

MaterialAndMesh ==
    {"create_and_assign_beam_material", "create_and_assign_solid_material",
     "MeshTower1D", "MeshTower", "MeshGBS"}

TieAndBC == {"create_tie_tower_gbs", "encastrement_GBS"}

C18_RetryAfterFailureIsClean ==
    /\ run = 1 => ~(mdl.dup /\ ~Ok(mdl))
    /\ run = 2 =>
            Begin(mdl) = Begin(stage(last.op, snap.db, names_dict, params))

-----------------------------------------------------------------------------
(* Properties of the loading stage (under SpecLoad).                       *)

\* C11: when the monitor set is absent from the assembly,
\* configure_step_and_outputs completes without raising and leaves no
\* history output request in the model.
C11_AbsentMonitorSetIsTolerated ==
    (last.op = "configure_step_and_outputs"
        /\ names_dict.set_monitor \notin mdl.sets)
        => Ok(mdl) /\ mdl.historyOutputRequests = {}

\* The faces of the two named skins, in the assembly's coordinates.
SkinFaces ==
    instance_surface(mdl, names_dict.inst_gbs, names_dict.surf_gbs)
        \cup instance_surface(mdl, names_dict.inst_tower, names_dict.surf_tower)

\* A face reaches the loaded side of the cutoff elevation.
OnLoadedSide(f, cutoff, side) ==
    IF side = "above" THEN Max(f.y1, f.y2) > cutoff
    ELSE Min(f.y1, f.y2) < cutoff

C20_OneLoadOfTheRightKind ==
    [][(last'.op = "apply_force_automatic" /\ Ok(mdl')) =>
        LET directionVector == last'.arg[1]
            magnitude == last'.arg[2]
            ampName == last'.arg[3]
            surf_key == last'.arg[5]
            name == load_name_of(ampName, directionVector)
            tower == names_dict.inst_tower
            beam_set == /\ tower \in DOMAIN mdl.instances
                        /\ "Set_Beam_All"
                            \in mdl.parts[mdl.instances[tower].part].sets
            surface == /\ surf_key \in DOMAIN names_dict
                       /\ names_dict[surf_key] \in DOMAIN mdl.surfaces
        IN  /\ Drop(mdl'.loads, {name}) = Drop(mdl.loads, {name})
            /\ IF params.dim_tour = "1D"
               THEN IF beam_set
                    THEN /\ name \in DOMAIN mdl'.loads
                         /\ mdl'.loads[name].kind = "LineLoad"
                         /\ mdl'.loads[name].region = <<tower, "Set_Beam_All">>
                         /\ mdl'.loads[name].magnitude
                                = magnitude * (params.r_up_tower
                                               + params.r_down_tower)
                    ELSE name \notin DOMAIN mdl'.loads
               ELSE IF surface
                    THEN /\ name \in DOMAIN mdl'.loads
                         /\ mdl'.loads[name].kind = "SurfaceTraction"
                         /\ mdl'.loads[name].region = <<names_dict[surf_key]>>
                         /\ mdl'.loads[name].magnitude = magnitude
                    ELSE name \notin DOMAIN mdl'.loads]_vars

C20_Witness ==
    /\ last.op = "apply_force_automatic" /\ Ok(mdl)
    /\ params.dim_tour = "1D"
    /\ \E l \in DOMAIN mdl.loads :
            /\ mdl.loads[l].kind = "LineLoad"
            /\ mdl.loads[l].magnitude = 5000 * 550
            /\ mdl.loads[l].vector = <<5000 * 550, 0, 0>>

-----------------------------------------------------------------------------
(* Properties of process_load_data (under SpecData).                       *)

\* m is the largest element of the non-empty set S, or 0 when S is empty.
IsLargestOrZero(m, S) ==
    IF S = {} THEN m = 0 ELSE m \in S /\ \A x \in S : x <= m

\* The largest absolute raw value exceeds 1.0.
PeakAboveOne(raw_data) ==
    \E i \in DOMAIN raw_data : Abs(raw_data[i][2]) > 10

-----------------------------------------------------------------------------
(* Properties of the geometry stage over the parameter space (SpecGeom).   *)

\* The volumes the three primitives occupy in the merged body, boundary
\* included, read at a probe point (doubled coordinates).
InPlateau(pt, param) ==
    /\ Between(0, 2 * param.plateau_radius, pt.x2)
    /\ Between(0, 2 * param.plateau_height, pt.y2)

\* At the height of the point the outer slant is at 2 * r_ext_bot +
\* (r_ext_top - r_ext_bot) * u2 / h_cone, the inner slant one thickness
\* inside; d is the signed offset from the outer slant times h_cone.
InCone(pt, param) ==
    LET u2 == pt.y2 - 2 * param.plateau_height
        d == (pt.x2 - 2 * param.cone_bottom_outer_radius) * param.cone_height
                - (param.cone_top_outer_radius
                      - param.cone_bottom_outer_radius) * u2
    IN  /\ Between(0, 2 * param.cone_height, u2)
        /\ Between(-2 * param.cone_thickness * param.cone_height, 0, d)

InCyl(pt, param) ==
    LET y0 == param.plateau_height + param.cone_height
    IN  /\ Between(2 * y0, 2 * (y0 + param.cyl_height), pt.y2)
        /\ Between(2 * r_int_top(param), 2 * param.cone_top_outer_radius,
                   pt.x2)

\* Probe i (1 plateau, 2 cone, 3 cylinder) lies in the volume of a
\* primitive other than its own.
InsideAnotherPrimitive(i, param) ==
    LET pt == pts_to_find(param)[i]
    IN  \/ i # 1 /\ InPlateau(pt, param)
        \/ i # 2 /\ InCone(pt, param)
        \/ i # 3 /\ InCyl(pt, param)

\* C22: create_fused_gbs issues exactly three point probes, one per
\* primitive; each finds the outer flank of its primitive in the merged
\* body, the named surface is the union of the three faces found, and no
\* probe point lies on an inner wall or inside another primitive's volume,
\* for every parameter set accepted by check_parameters.
C22_ProbesOnOuterFlanks ==
    (last.op = "create_fused_gbs" /\ Ok(mdl) /\ result = Returned) =>
        LET part == mdl.parts[names_dict.part_gbs]
            profile == part_profile(part)
            pts == pts_to_find(params)
        IN  /\ Len(pts) = 3
            /\ names_dict.surf_gbs \in DOMAIN part.surfaces
            /\ part.surfaces[names_dict.surf_gbs]
                  = UNION {findAt(profile, pts[i]) : i \in 1..3}
            /\ \A i \in 1..3 :
                  /\ Cardinality(findAt(profile, pts[i])) = 1
                  /\ \A f \in findAt(profile, pts[i]) : f.wall = "outer"
                  /\ ~InsideAnotherPrimitive(i, params)

\* Plane geometry of sketch lines.  Cross is twice the signed area of the
\* triangle p, q, r.
Cross(p, q, r) ==
    (q[1] - p[1]) * (r[2] - p[2]) - (q[2] - p[2]) * (r[1] - p[1])

\* r lies on the segment from p to q.
OnSegment(p, q, r) ==
    /\ Cross(p, q, r) = 0
    /\ Between(p[1], q[1], r[1])
    /\ Between(p[2], q[2], r[2])

Opposite(x, y) == (x > 0 /\ y < 0) \/ (x < 0 /\ y > 0)

\* Two lines have a point in common.
Meet(a, b) ==
    \/ /\ Opposite(Cross(b[1], b[2], a[1]), Cross(b[1], b[2], a[2]))
       /\ Opposite(Cross(a[1], a[2], b[1]), Cross(a[1], a[2], b[2]))
    \/ OnSegment(b[1], b[2], a[1]) \/ OnSegment(b[1], b[2], a[2])
    \/ OnSegment(a[1], a[2], b[1]) \/ OnSegment(a[1], a[2], b[2])

Ends(a) == {a[1], a[2]}

\* Two lines of a polygon cross: they meet elsewhere than at one shared
\* end point.
Crossing(a, b) ==
    IF Ends(a) \cap Ends(b) = {} THEN Meet(a, b)
    ELSE \/ Ends(a) = Ends(b)
         \/ \E v \in Ends(a) \cap Ends(b) :
               \/ \E r \in Ends(a) \ {v} : OnSegment(b[1], b[2], r)
               \/ \E r \in Ends(b) \ {v} : OnSegment(a[1], a[2], r)

\* The four lines, as undirected edges, form one cycle through four
\* vertices, each the end of exactly two lines; no two lines cross; no
\* vertex has a negative radius.
ClosedSimplePolygon(sk) ==
    LET V == UNION {Ends(sk[i]) : i \in DOMAIN sk}
    IN  /\ Len(sk) = 4
        /\ Cardinality(V) = 4
        /\ Cardinality({Ends(sk[i]) : i \in DOMAIN sk}) = 4
        /\ \A i \in DOMAIN sk : sk[i][1] # sk[i][2]
        /\ \A v \in V :
              Cardinality({i \in DOMAIN sk : v \in Ends(sk[i])}) = 2
        /\ \A i, j \in DOMAIN sk : i < j => ~Crossing(sk[i], sk[j])
        /\ \A v \in V : v[1] >= 0

\* C23: every revolved profile drawn by the code (tower trapezoid, plateau
\* rectangle, hollow cone trapezoid, hollow cylinder rectangle) is a closed
\* simple polygon without a negative radius, for every parameter set
\* accepted by check_parameters.
C23_ProfilesAreSimplePolygons ==
    (last.op \in {"create_tower", "create_fused_gbs"} /\ result = Returned) =>
        \A sk \in sketches_drawn(last.op, params) : ClosedSimplePolygon(sk)

-----------------------------------------------------------------------------
(* Properties of the monitoring point (under Spec).                        *)

\* C24: after create_monitor_point_top or create_monitor_point_GBS returns,
\* the set names['set_monitor'] exists in the assembly if and only if the
\* function returned True; a False return leaves no monitor set, reference
\* point or coupling behind, neither one created earlier in the same call
\* nor a stale one from a previous call.
C24_FlagAgreesWithModel ==
    (/\ last.op \in {"create_monitor_point_top", "create_monitor_point_GBS"}
     /\ Ok(mdl)) =>
        /\ mdl.ret \in {"True", "False"}
        /\ names_dict.set_monitor \in mdl.sets <=> mdl.ret = "True"
        /\ mdl.ret = "False" =>
              /\ "RP_Monitor_Top" \notin mdl.features
              /\ "Cpl_Monitor_Top" \notin mdl.constraints

\* C26: create_assembly_geometry is all-or-nothing on its error path: when
\* names['part_gbs'] or names['part_tower'] is missing from the model the
\* call raises ValueError and leaves the instances of the assembly exactly
\* as they were before the call.
C26_AssemblyErrorPathKeepsInstances ==
    [][(/\ last'.op = "create_assembly_geometry"
        /\ ~({names_dict.part_gbs, names_dict.part_tower}
                \subseteq DOMAIN mdl.parts))
       => (/\ mdl'.exc = "ValueError"
           /\ mdl'.instances = mdl.instances)]_vars

-----------------------------------------------------------------------------
(* Properties of the driver up to the job (under SpecMain).                *)

\* C25: main.py, run with its own parameter set (dim_tour = '1D') or with
\* dim_tour = '3D', executes every stage without an unhandled error: no
\* statement of the script ends with an exception in flight, each call
\* matching the signature and the preconditions of its callee.
C25_DriverRunsWithoutError ==
    params \in LoadParamSets => Ok(mdl)

-----------------------------------------------------------------------------
(* Properties of the loads (under SpecForce).                              *)

\* C27: after apply_force_automatic(..., data, ampName, ...) returns, the
\* amplitude registered under ampName holds the data passed to that call,
\* also when an amplitude of that name existed from an earlier call with
\* different data.
C27_AmplitudeHoldsDataOfCall ==
    (last.op = "apply_force_automatic" /\ Ok(mdl)) =>
        /\ last.arg[3] \in DOMAIN mdl.amplitudes
        /\ mdl.amplitudes[last.arg[3]] = last.arg[6]

\* The load was created by a call with this amplitude name and this
\* direction vector (a line load stores the components, the magnitude
\* times p2 - p1).
CreatedFor(load, ampName, directionVector) ==
    /\ load.amplitude = ampName
    /\ \/ load.kind = "SurfaceTraction" /\ load.vector = directionVector
       \/ /\ load.kind = "LineLoad"
          /\ load.vector = [i \in 1..3 |->
                load.magnitude * (directionVector[2][i] - directionVector[1][i])]

\* C28: loads created by apply_force_automatic for distinct (ampName,
\* directionVector) pairs have distinct names and coexist: a call neither
\* deletes nor replaces a load created by an earlier call for another pair;
\* only a call with the same ampName and the same direction replaces its
\* own earlier load.
C28_LoadsOfDistinctPairsCoexist ==
    [][last'.op = "apply_force_automatic" =>
          \A l \in DOMAIN mdl.loads :
              ~CreatedFor(mdl.loads[l], last'.arg[3], last'.arg[1]) =>
                  /\ l \in DOMAIN mdl'.loads
                  /\ mdl'.loads[l] = mdl.loads[l]]_vars

\* C29: every height-mask field referenced by a load encodes that load's
\* own cutoff and side: a call that creates a mask for another cutoff (for
\* example one with the same integer part) neither deletes nor rewrites a
\* field that a load it leaves in place still references; a mask_side other
\* than 'above' / 'below' creates and deletes no field and yields None.
C29_MaskOfALoadIsNeverRewritten ==
    [][last'.op = "apply_force_automatic" =>
          /\ \A l \in DOMAIN mdl.loads \cap DOMAIN mdl'.loads :
                (/\ l # load_name_of(last'.arg[3], last'.arg[1])
                 /\ mdl.loads[l].field # <<>>) =>
                    /\ mdl.loads[l].field \in DOMAIN mdl'.analyticalFields
                    /\ mdl'.analyticalFields[mdl.loads[l].field]
                          = mdl.analyticalFields[mdl.loads[l].field]
          /\ last'.arg[4] \notin {"above", "below"} =>
                /\ mdl'.analyticalFields = mdl.analyticalFields
                /\ height_mask_name(last'.arg[4], last'.arg[7]) = <<>>]_vars

-----------------------------------------------------------------------------
(* Properties of the job and the post-processing (under SpecJob).          *)

\* C30: the export of the results (export_history_to_csv,
\* create_plot_from_csv) starts only after the submitted job has completed:
\* the job is created and submitted exactly once per run, any job of the
\* same name being deleted first, and when the wait is interrupted or fails
\* the post-processing of the result file does not run.
C30_ExportOnlyAfterCompletion ==
    /\ (last.op = "lancement_job" /\ Ok(mdl)) =>
          /\ names_dict.job_name \in DOMAIN mdl.jobs
          /\ mdl.jobs[names_dict.job_name].submits = 1
    /\ last.op \in {"export_history_to_csv", "create_plot_from_csv"} =>
          /\ names_dict.job_name \in DOMAIN mdl.jobs
          /\ mdl.jobs[names_dict.job_name].status = "COMPLETED"

====
